---- MODULE Spec2Model ----
(***************************************************************************)
(* Simulation core of phylogenie: the tree-building simulation state       *)
(* (treesimulator/core.py Model), the tree nodes it owns (tree_node.py),   *)
(* and the drivers that advance it.                                        *)
(*                                                                         *)
(* Times are points of an integer grid.  An optional value (Python None or *)
(* a value v) is the empty sequence or the one-element sequence <<v>>.     *)
(***************************************************************************)
EXTENDS Integers, Sequences, FiniteSets, TLC

VARIABLES
    current_time,    \* Model._current_time
    next_node_id,    \* Model._next_node_id
    active_nodes,    \* Model._active_nodes: ordered dict state -> OrderedSet
    sampled_nodes,   \* Model._sampled_nodes: set of node names
    node_times,      \* Model._node_times: node -> optional time
    tree,            \* Model._tree: the seed node
    name,            \* TreeNode.name, as [id, state]
    nstate,          \* TreeNode metadata under STATE_KEY
    branch_length,   \* TreeNode.branch_length: optional
    parent,          \* TreeNode._parent: 0 is None
    children,        \* TreeNode._children: list of nodes
    metadata,        \* Model._metadata: key -> value
    init_state,      \* Model._init_state
    init_metadata,   \* Model._init_metadata: optional
    stochastic_events,      \* Model._stochastic_events
    timed_events,           \* Model._timed_events
    run_stochastic_events,  \* Model._run_stochastic_events
    run_timed_events,       \* Model._run_timed_events
    calls,           \* the number of calls made on the model since reset()
    step_log,        \* what the last step() computed and applied
    sim,             \* the call of simulate_tree in progress: its locals and its model
    param,           \* the SkylineParameter object built last
    io,              \* the Newick file being written and read back
    pool             \* the joblib.Parallel call in progress: its generator and its jobs

(* ------------------------------ bounds -------------------------------- *)
\* the nodes a run may create
MaxNodes == 3
\* the calls made from outside between two reset()
MaxCalls == 2
\* the nodes a call of simulate_tree may create in one attempt
MaxSimNodes == 5
\* the attempts of a call of simulate_tree
MaxAttempts == 2
\* the readings of the wall clock
MaxClock == 2

States == {"I", "S"}

None == <<>>
Some(v) == <<v>>
IsNone(o) == o = <<>>
Val(o) == o[1]

(* ------------------------------ sequences ----------------------------- *)
RECURSIVE SeqRemove(_, _)
\* list.remove(x) / del dict[x]: drops the first occurrence of x
SeqRemove(s, x) ==
    IF s = <<>> THEN <<>>
    ELSE IF Head(s) = x THEN Tail(s)
    ELSE <<Head(s)>> \o SeqRemove(Tail(s), x)

Range(s) == {s[i] : i \in 1..Len(s)}

RECURSIVE Concat(_)
Concat(ss) == IF ss = <<>> THEN <<>> ELSE Head(ss) \o Concat(Tail(ss))

(* ------------------------------ tree nodes ---------------------------- *)
\* A model value m is a record of all fields; the operators below are the
\* methods, each returning the model value after the call.  m.raised # ""
\* means the call ended with that exception, with the effects made so far.

Raise(m, e) == [m EXCEPT !.raised = e]

\* the add_child that takes over a child that has a parent
add_child_Adopts(m, p, child) ==
    [m EXCEPT !.parent[child] = p,
              !.children[p] = Append(@, child)]

\* TreeNode.add_child
add_child(m, p, child) ==
    IF m.parent[child] # 0 THEN Raise(m, "ValueError")
    ELSE [m EXCEPT !.parent[child] = p,
                   !.children[p] = Append(@, child)]

\* TreeNode.remove_child
remove_child(m, p, child) ==
    IF child \notin Range(m.children[p]) THEN Raise(m, "ValueError")
    ELSE [m EXCEPT !.children[p] = SeqRemove(@, child),
                   !.parent[child] = 0]

\* TreeNode.update_parent
update_parent(m, n, newparent) ==
    LET m1 == IF m.parent[n] # 0 THEN remove_child(m, m.parent[n], n) ELSE m
        m2 == [m1 EXCEPT !.parent[n] = newparent]
    IN  IF m1.raised # "" THEN m1
        ELSE IF newparent # 0
             THEN [m2 EXCEPT !.children[newparent] = Append(@, n)]
             ELSE m2

RECURSIVE iter_postorder(_, _)
\* TreeNode.iter_postorder, as the list of nodes it yields
iter_postorder(ch, n) ==
    Concat([i \in 1..Len(ch[n]) |-> iter_postorder(ch, ch[n][i])]) \o <<n>>

(* ------------------------------ Model --------------------------------- *)
\* Model._get_node_name
get_node_name(node_id, state) == [id |-> node_id, state |-> state]

\* position of a state's bucket in the ordered dict, 0 if it has none
KeyIndex(an, s) ==
    IF \E i \in 1..Len(an) : an[i].key = s
    THEN CHOOSE i \in 1..Len(an) : an[i].key = s
    ELSE 0

\* defaultdict access self._active_nodes[s]: creates the bucket if missing
Touch(an, s) ==
    IF KeyIndex(an, s) = 0 THEN Append(an, [key |-> s, nodes |-> <<>>]) ELSE an

Bucket(an, s) == IF KeyIndex(an, s) = 0 THEN <<>> ELSE an[KeyIndex(an, s)].nodes

\* the get_new_node that names the node before it increments the counter
get_new_node_NamesFirst(m, state) ==
    LET id == m.next_node_id + 1
        an == Touch(m.active_nodes, state)
        k  == KeyIndex(an, state)
    IN  [m EXCEPT !.next_node_id = id,
                  !.name = Append(@, get_node_name(m.next_node_id, state)),
                  !.nstate = Append(@, state),
                  !.branch_length = Append(@, None),
                  !.parent = Append(@, 0),
                  !.children = Append(@, <<>>),
                  !.node_times = Append(@, None),
                  !.active_nodes = [an EXCEPT ![k].nodes = Append(@, id)]]

\* Model.get_new_node; the fields of the nodes are lists indexed by the node,
\* in creation order
get_new_node(m, state) ==
    LET id == m.next_node_id + 1
        an == Touch(m.active_nodes, state)
        k  == KeyIndex(an, state)
    IN  [m EXCEPT !.next_node_id = id,
                  !.name = Append(@, get_node_name(id, state)),
                  !.nstate = Append(@, state),
                  !.branch_length = Append(@, None),
                  !.parent = Append(@, 0),
                  !.children = Append(@, <<>>),
                  !.node_times = Append(@, None),
                  !.active_nodes = [an EXCEPT ![k].nodes = Append(@, id)]]

\* fix without the removal from the active index
fix_KeepsActive(m, node) ==
    IF ~IsNone(m.branch_length[node]) THEN Raise(m, "RuntimeError")
    ELSE
      LET parent_time == IF m.parent[node] = 0 THEN Some(0)
                         ELSE m.node_times[m.parent[node]]
      IN  IF IsNone(parent_time) THEN Raise(m, "KeyError")
          ELSE [m EXCEPT !.branch_length[node] = Some(m.current_time - Val(parent_time)),
                         !.node_times[node] = Some(m.current_time)]

\* fix with the branch measured from time 0 instead of the parent's time
fix_FromZero(m, node) ==
    IF ~IsNone(m.branch_length[node]) THEN Raise(m, "RuntimeError")
    ELSE
      LET an == Touch(m.active_nodes, m.nstate[node])
          k  == KeyIndex(an, m.nstate[node])
          m1 == [m EXCEPT !.branch_length[node] = Some(m.current_time),
                          !.node_times[node] = Some(m.current_time),
                          !.active_nodes = an]
      IN  IF node \notin Range(an[k].nodes) THEN Raise(m1, "KeyError")
          ELSE [m1 EXCEPT !.active_nodes[k].nodes = SeqRemove(@, node)]

\* fix without the test of the branch length
fix_Refixes(m, node) ==
    LET parent_time == IF m.parent[node] = 0 THEN Some(0)
                       ELSE m.node_times[m.parent[node]]
    IN  IF IsNone(parent_time) THEN Raise(m, "KeyError")
        ELSE
          LET an == Touch(m.active_nodes, m.nstate[node])
              k  == KeyIndex(an, m.nstate[node])
              m1 == [m EXCEPT !.branch_length[node] =
                                   Some(m.current_time - Val(parent_time)),
                              !.node_times[node] = Some(m.current_time),
                              !.active_nodes = an]
          IN  IF node \notin Range(an[k].nodes) THEN Raise(m1, "KeyError")
              ELSE [m1 EXCEPT !.active_nodes[k].nodes = SeqRemove(@, node)]

\* Model.fix
fix(m, node) ==
    IF ~IsNone(m.branch_length[node]) THEN Raise(m, "RuntimeError")
    ELSE
      LET parent_time == IF m.parent[node] = 0 THEN Some(0)
                         ELSE m.node_times[m.parent[node]]
      IN  IF IsNone(parent_time) THEN Raise(m, "KeyError")
          ELSE
            LET an == Touch(m.active_nodes, m.nstate[node])
                k  == KeyIndex(an, m.nstate[node])
                m1 == [m EXCEPT !.branch_length[node] =
                                     Some(m.current_time - Val(parent_time)),
                                !.node_times[node] = Some(m.current_time),
                                !.active_nodes = an]
            IN  IF node \notin Range(an[k].nodes) THEN Raise(m1, "KeyError")
                ELSE [m1 EXCEPT !.active_nodes[k].nodes = SeqRemove(@, node)]

\* Model.stem
stem(m, node, stem_state) ==
    LET m1 == fix(m, node)
        m2 == get_new_node(m1, stem_state)
    IN  IF m1.raised # "" THEN m1
        ELSE add_child(m2, node, m2.next_node_id)

\* Model.remove
remove(m, node) == fix(m, node)

\* Model.migrate
migrate(m, node, new_state) == stem(m, node, new_state)

\* birth_from that stems the parent into the state of the child
birth_from_StemsChildState(m, p, new_state) ==
    LET m1 == get_new_node(m, new_state)
        m2 == add_child(m1, p, m1.next_node_id)
    IN  IF m2.raised # "" THEN m2
        ELSE stem(m2, p, new_state)

\* what Model.birth_from returns, as the list of the nodes returned: new_node,
\* the first node the call creates
birth_from_returns(m, p, new_state) == << m.next_node_id + 1 >>

\* Model.birth_from; the node it returns is the last one but one created
birth_from(m, p, new_state) ==
    LET m1 == get_new_node(m, new_state)
        m2 == add_child(m1, p, m1.next_node_id)
    IN  IF m2.raised # "" THEN m2
        ELSE stem(m2, p, m2.nstate[p])

\* sample that samples the node itself whatever removal is
sample_AlwaysRemoves(m, node, removal) ==
    fix([m EXCEPT !.sampled_nodes = @ \cup {m.name[node]}], node)

\* Model.sample
sample(m, node, removal) ==
    LET m1 == IF removal THEN m ELSE birth_from(m, node, m.nstate[node])
        sample_node == IF removal THEN node ELSE m.next_node_id + 1
    IN  IF m1.raised # "" THEN m1
        ELSE fix([m1 EXCEPT !.sampled_nodes = @ \cup {m1.name[sample_node]}],
                 sample_node)

\* Model.tree_size
tree_size(m) == Cardinality(m.sampled_nodes)

RECURSIVE prune(_, _, _)
\* the loop of get_tree without its second branch: unary nodes are kept
prune_KeepsUnary(t, order, i) ==
    IF i > Len(order) THEN [kind |-> "tree", root |-> order[Len(order)], t |-> t]
    ELSE
      LET node == order[i] IN
      IF t.name[node] \notin t.sampled_nodes /\ t.children[node] = <<>>
      THEN IF t.parent[node] = 0
           THEN [kind |-> "none", root |-> 0, t |-> t]
           ELSE prune(remove_child(t, t.parent[node], node), order, i + 1)
      ELSE prune(t, order, i + 1)

\* the loop of get_tree that returns the seed when the seed is left with one
\* child
prune_KeepsSeed(t, order, i) ==
    IF i > Len(order) THEN [kind |-> "tree", root |-> order[Len(order)], t |-> t]
    ELSE
      LET node == order[i] IN
      IF t.name[node] \notin t.sampled_nodes /\ t.children[node] = <<>>
      THEN IF t.parent[node] = 0
           THEN [kind |-> "none", root |-> 0, t |-> t]
           ELSE prune(remove_child(t, t.parent[node], node), order, i + 1)
      ELSE IF Len(t.children[node]) = 1 /\ t.parent[node] # 0
      THEN LET child == t.children[node][1]
               p     == t.parent[node]
               t1    == update_parent(t, child, p)
           IN  IF IsNone(t1.branch_length[child]) \/ IsNone(t1.branch_length[node])
               THEN [kind |-> "error", root |-> 0, t |-> Raise(t1, "TypeError")]
               ELSE
                 LET t2 == [t1 EXCEPT !.branch_length[child] =
                               Some(Val(@) + Val(t1.branch_length[node]))]
                 IN  prune(remove_child(t2, t2.parent[node], node), order, i + 1)
      ELSE prune(t, order, i + 1)

\* the loop of get_tree without its first branch: leaves that are not
\* sampled are kept
prune_KeepsUnsampled(t, order, i) ==
    IF i > Len(order) THEN [kind |-> "tree", root |-> order[Len(order)], t |-> t]
    ELSE
      LET node == order[i] IN
      IF Len(t.children[node]) = 1
      THEN LET child == t.children[node][1]
               p     == t.parent[node]
               t1    == update_parent(t, child, p)
           IN  IF IsNone(t1.branch_length[child]) \/ IsNone(t1.branch_length[node])
               THEN [kind |-> "error", root |-> 0, t |-> Raise(t1, "TypeError")]
               ELSE
                 LET t2 == [t1 EXCEPT !.branch_length[child] =
                               Some(Val(@) + Val(t1.branch_length[node]))]
                 IN  IF t2.parent[node] = 0
                     THEN [kind |-> "tree", root |-> child, t |-> t2]
                     ELSE prune(remove_child(t2, t2.parent[node], node), order, i + 1)
      ELSE prune(t, order, i + 1)

\* the loop of Model.get_tree over the postorder list of the copy, from
\* position i on; t holds the copy's parent, children and branch_length
prune(t, order, i) ==
    IF i > Len(order) THEN [kind |-> "tree", root |-> order[Len(order)], t |-> t]
    ELSE
      LET node == order[i] IN
      IF t.name[node] \notin t.sampled_nodes /\ t.children[node] = <<>>
      THEN IF t.parent[node] = 0
           THEN [kind |-> "none", root |-> 0, t |-> t]
           ELSE prune(remove_child(t, t.parent[node], node), order, i + 1)
      ELSE IF Len(t.children[node]) = 1
      THEN LET child == t.children[node][1]
               p     == t.parent[node]
               t1    == update_parent(t, child, p)
           IN  IF IsNone(t1.branch_length[child]) \/ IsNone(t1.branch_length[node])
               THEN [kind |-> "error", root |-> 0, t |-> Raise(t1, "TypeError")]
               ELSE
                 LET t2 == [t1 EXCEPT !.branch_length[child] =
                               Some(Val(@) + Val(t1.branch_length[node]))]
                 IN  IF t2.parent[node] = 0
                     THEN [kind |-> "tree", root |-> child, t |-> t2]
                     ELSE prune(remove_child(t2, t2.parent[node], node), order, i + 1)
      ELSE prune(t, order, i + 1)

\* Model.get_tree: [kind, root, t] with kind "tree", "none" (returns None) or
\* "error"; the pruned tree is t.parent, t.children, t.branch_length under root
get_tree(m) == prune(m, iter_postorder(m.children, m.tree), 1)

RECURSIVE copy(_, _)
\* TreeNode.copy: [h, new]; the nodes of the copy are created after the nodes
\* h holds, the copy of node first, and new is the copy of node
copy(h, node) ==
    LET new == Len(h.name) + 1
        h0  == [h EXCEPT !.name = Append(@, h.name[node]),
                         !.branch_length = Append(@, h.branch_length[node]),
                         !.nstate = Append(@, h.nstate[node]),
                         !.parent = Append(@, 0),
                         !.children = Append(@, <<>>)]
        RECURSIVE kids(_, _)
        kids(hh, i) ==
            IF i > Len(h.children[node]) THEN hh
            ELSE LET c == copy(hh, h.children[node][i])
                 IN  kids(add_child(c.h, new, c.new), i + 1)
    IN  [h |-> kids(h0, 1), new |-> new]

\* get_tree that prunes self._tree itself
get_tree_InPlace(m) == prune(m, iter_postorder(m.children, m.tree), 1)

\* Model.get_tree with the nodes of the copy kept apart from the nodes of the
\* model: t holds both, the model's nodes first
get_tree_on_copy(m) ==
    LET c == copy(m, m.tree)
    IN  prune(c.h, iter_postorder(c.h.children, c.new), 1)

\* nodes of the tree below (and including) n
RECURSIVE Subtree(_, _)
Subtree(ch, n) == {n} \cup UNION {Subtree(ch, ch[n][i]) : i \in 1..Len(ch[n])}

Leaves(ch, root) == {n \in Subtree(ch, root) : ch[n] = <<>>}

RECURSIVE PathLength(_, _, _)
\* sum of the branch lengths from root down to n, both included
PathLength(t, root, n) ==
    Val(t.branch_length[n]) + (IF n = root THEN 0 ELSE PathLength(t, root, t.parent[n]))

(* ------------------------------ skyline ------------------------------- *)
RECURSIVE bisect_loop(_, _, _, _)
bisect_loop(a, x, lo, hi) ==
    IF lo >= hi THEN lo
    ELSE LET mid == (lo + hi) \div 2
         IN  IF x < a[mid + 1] THEN bisect_loop(a, x, lo, mid)
             ELSE bisect_loop(a, x, mid + 1, hi)

\* bisect.bisect_right(a, x), a 0-based insertion point
bisect_right(a, x) == bisect_loop(a, x, 0, Len(a))

\* SkylineParameter.get_value_at_time
get_value_at_time(p, time) == p.value[bisect_right(p.change_times, time) + 1]

Const(v) == [value |-> <<v>>, change_times |-> <<>>]
Sky(v, ct) == [value |-> v, change_times |-> ct]

(* ------------------------------ events -------------------------------- *)
\* re.fullmatch(pattern, s) for the patterns the configurations use
fullmatch(pattern, s) ==
    CASE pattern = "I|S" -> s \in {"I", "S"}
      [] pattern = ".*"  -> TRUE
      [] OTHER           -> pattern = s

\* Model.get_active_nodes; state is an optional pattern
get_active_nodes(m, state) ==
    Concat([i \in 1..Len(m.active_nodes) |->
              IF IsNone(state) \/ fullmatch(Val(state), m.active_nodes[i].key)
              THEN m.active_nodes[i].nodes ELSE <<>>])

\* Model.count_active_nodes
count_active_nodes(m, state) == Len(get_active_nodes(m, state))

INFECTIOUS_STATE == "I"
SUSCEPTIBLE_STATE == "S"
SUSCEPTIBLES_KEY == "susceptibles"

\* StateDependentEvent.get_propensity, Transmission.get_propensity
get_propensity(e, m) ==
    LET rate == get_value_at_time(e.rate, m.current_time)
    IN  IF e.kind = "Transmission"
        THEN rate * count_active_nodes(m, Some(INFECTIOUS_STATE))
                  * m.metadata[SUSCEPTIBLES_KEY]
        ELSE rate * count_active_nodes(m, e.state)

\* Death.apply, Migration.apply, Sampling.apply (common.py) and
\* Transmission.apply (sir.py), the drawn node being `pick` (0: none to draw)
apply_stochastic(e, m, pick) ==
    IF e.kind = "Transmission"
    THEN LET m1 == [m EXCEPT !.metadata[SUSCEPTIBLES_KEY] = @ - 1]
         IN  IF pick = 0 THEN Raise(m1, "IndexError")
             ELSE birth_from(m1, pick, SUSCEPTIBLE_STATE)
    ELSE IF pick = 0 THEN Raise(m, "IndexError")
    ELSE CASE e.kind = "Death"     -> remove(m, pick)
           [] e.kind = "Migration" -> migrate(m, pick, e.target_state)
           [] e.kind = "Sampling"  -> sample(m, pick, e.removal)

\* the draw for node n; nodes beyond the bound have none
Coin(coin, n) == IF n \in DOMAIN coin THEN coin[n] ELSE 0

RECURSIVE sample_each(_, _, _, _, _)
\* the loop of TimedSampling.apply over the snapshot l; coin[n] is the value of
\* rng.random(), in hundredths, drawn for node n
sample_each(e, m, l, coin, i) ==
    IF i > Len(l) \/ m.raised # "" THEN m
    ELSE sample_each(e,
                     IF Coin(coin, l[i]) < e.proportion THEN sample(m, l[i], e.removal) ELSE m,
                     l, coin, i + 1)

\* TimedSampling.apply
apply_timed(e, m, coin) == sample_each(e, m, get_active_nodes(m, e.state), coin, 1)

(* ------------------------------ Model.step ---------------------------- *)
Min(S) == CHOOSE x \in S : \A y \in S : x <= y
OptMin(S) == IF S = {} THEN None ELSE Some(Min(S))
Sum2(f, n) == LET RECURSIVE go(_)
                  go(i) == IF i = 0 THEN 0 ELSE f[i] + go(i - 1)
              IN  go(n)

\* np.cumsum
cumsum(ps) == [i \in 1..Len(ps) |-> Sum2(ps, i)]

\* np.searchsorted(np.cumsum(ps) / total, u), u = r / 100: the 0-based index of
\* the first entry that is >= u, len(ps) if there is none
searchsorted(ps, total, r) ==
    LET c == cumsum(ps)
        hit == {i \in 1..Len(ps) : c[i] * 100 >= r * total}
    IN  IF hit = {} THEN Len(ps) ELSE Min(hit) - 1

\* the times Model.step computes before it advances, the exponential draw
\* being delta: [rate_change_time, timed_events_time, stochastic_event_time,
\* propensities, total_propensity]
step_times(m, delta) ==
    LET rate_change_times ==
            {t \in UNION {Range(m.run_stochastic_events[i].rate.change_times) :
                            i \in 1..Len(m.run_stochastic_events)} :
               t > m.current_time}
        propensities == [i \in 1..Len(m.run_stochastic_events) |->
                            get_propensity(m.run_stochastic_events[i], m)]
        total_propensity == Sum2(propensities, Len(propensities))
        timed_events_times ==
            {t \in UNION {Range(m.run_timed_events[i].times) :
                            i \in 1..Len(m.run_timed_events)} :
               t > m.current_time}
    IN  [rate_change_time |-> OptMin(rate_change_times),
         timed_events_time |-> OptMin(timed_events_times),
         stochastic_event_time |->
             IF total_propensity = 0 THEN None ELSE Some(m.current_time + delta),
         propensities |-> propensities,
         total_propensity |-> total_propensity]

\* the candidate times of a step
Candidates(st) ==
    {Val(t) : t \in {x \in {st.rate_change_time, st.timed_events_time,
                            st.stochastic_event_time} : ~IsNone(x)}}

RECURSIVE apply_timed_events(_, _, _, _, _)
\* the loop over the timed events that hold the time t, from event i on
apply_timed_events(m, t, coins, i, log) ==
    IF i > Len(m.run_timed_events) \/ m.raised # "" THEN [m |-> m, log |-> log]
    ELSE IF t \in Range(m.run_timed_events[i].times)
    THEN apply_timed_events(apply_timed(m.run_timed_events[i], m, coins[i]), t, coins,
                            i + 1, Append(log, <<"timed", i, m.current_time>>))
    ELSE apply_timed_events(m, t, coins, i + 1, log)

\* the assignment to _current_time in Model.step
step_advance(m, st, max_time) ==
    [m EXCEPT !.current_time =
        Min(Candidates(st) \cup (IF IsNone(max_time) THEN {} ELSE {Val(max_time)}))]

\* the timed events of Model.step: [m, log]
step_timed(m1, st, coins) ==
    IF Some(m1.current_time) = st.timed_events_time
    THEN apply_timed_events(m1, m1.current_time, coins, 1, <<>>)
    ELSE [m |-> m1, log |-> <<>>]

\* the stochastic event of Model.step applied whenever a time was drawn for
\* it, wherever the step ended
step_stochastic_KeepsDraw(a, st, r, pick) ==
    LET idx == searchsorted(st.propensities, st.total_propensity, r) + 1
    IN  IF a.m.raised = "" /\ ~IsNone(st.stochastic_event_time)
        THEN IF idx > Len(a.m.run_stochastic_events)
             THEN [m |-> Raise(a.m, "IndexError"), log |-> a.log]
             ELSE [m |-> apply_stochastic(a.m.run_stochastic_events[idx], a.m, pick),
                   log |-> Append(a.log, <<"stochastic", idx, a.m.current_time>>)]
        ELSE a

\* the stochastic event of Model.step, after the timed events gave a: [m, log]
step_stochastic(a, st, r, pick) ==
    LET idx == searchsorted(st.propensities, st.total_propensity, r) + 1
    IN  IF a.m.raised = "" /\ Some(a.m.current_time) = st.stochastic_event_time
        THEN IF idx > Len(a.m.run_stochastic_events)
             THEN [m |-> Raise(a.m, "IndexError"), log |-> a.log]
             ELSE [m |-> apply_stochastic(a.m.run_stochastic_events[idx], a.m, pick),
                   log |-> Append(a.log, <<"stochastic", idx, a.m.current_time>>)]
        ELSE a

\* Model.step(max_time), the random draws being delta (expovariate), coins
\* (random() per timed event and node), r (random() of the event choice) and
\* pick (rng.choice): [m, ret, log, st]; log lists the events applied, in order
step(m, max_time, delta, coins, r, pick) ==
    LET st == step_times(m, delta)
        m1 == step_advance(m, st, max_time)
        b  == step_stochastic(step_timed(m1, st, coins), st, r, pick)
    IN  IF Candidates(st) = {} THEN [m |-> m, ret |-> FALSE, log |-> <<>>, st |-> st]
        ELSE [m |-> b.m, log |-> b.log, st |-> st,
              ret |-> ~(Some(m1.current_time) = max_time)]

(* ------------------------------ state --------------------------------- *)
model_state == <<current_time, next_node_id, active_nodes, sampled_nodes, node_times,
                tree, name, nstate, branch_length, parent, children, metadata,
                init_state, init_metadata, stochastic_events, timed_events,
                run_stochastic_events, run_timed_events>>

vars == <<model_state, calls, step_log, sim, param, io, pool>>

\* the model value of the current state
M == [current_time |-> current_time, next_node_id |-> next_node_id,
      active_nodes |-> active_nodes, sampled_nodes |-> sampled_nodes,
      node_times |-> node_times, tree |-> tree, name |-> name,
      nstate |-> nstate, branch_length |-> branch_length, parent |-> parent,
      children |-> children, metadata |-> metadata, init_state |-> init_state,
      init_metadata |-> init_metadata, stochastic_events |-> stochastic_events,
      timed_events |-> timed_events,
      run_stochastic_events |-> run_stochastic_events,
      run_timed_events |-> run_timed_events, raised |-> ""]

Set(m) ==
    /\ current_time' = m.current_time
    /\ next_node_id' = m.next_node_id
    /\ active_nodes' = m.active_nodes
    /\ sampled_nodes' = m.sampled_nodes
    /\ node_times' = m.node_times
    /\ tree' = m.tree
    /\ name' = m.name
    /\ nstate' = m.nstate
    /\ branch_length' = m.branch_length
    /\ parent' = m.parent
    /\ children' = m.children
    /\ metadata' = m.metadata
    /\ init_state' = m.init_state
    /\ init_metadata' = m.init_metadata
    /\ stochastic_events' = m.stochastic_events
    /\ timed_events' = m.timed_events
    /\ run_stochastic_events' = m.run_stochastic_events
    /\ run_timed_events' = m.run_timed_events

NoMetadata == [k \in {} |-> 0]

\* reset() without self.clear()
reset_KeepsMetadata(m) ==
    LET m0 == [m EXCEPT !.metadata = IF IsNone(m.init_metadata) THEN @
                                     ELSE [k \in DOMAIN @ \cup DOMAIN Val(m.init_metadata) |->
                                             IF k \in DOMAIN Val(m.init_metadata)
                                             THEN Val(m.init_metadata)[k] ELSE @[k]],
                        !.current_time = 0,
                        !.next_node_id = 0,
                        !.active_nodes = <<>>,
                        !.sampled_nodes = {},
                        !.node_times = <<>>,
                        !.name = <<>>,
                        !.nstate = <<>>,
                        !.branch_length = <<>>,
                        !.parent = <<>>,
                        !.children = <<>>]
        m1 == get_new_node(m0, m.init_state)
    IN  [m1 EXCEPT !.tree = m1.next_node_id,
                   !.run_stochastic_events = m.stochastic_events,
                   !.run_timed_events = m.timed_events]

\* Model.reset
reset(m) ==
    LET m0 == [m EXCEPT !.metadata = IF IsNone(m.init_metadata) THEN NoMetadata
                                     ELSE Val(m.init_metadata),
                        !.current_time = 0,
                        !.next_node_id = 0,
                        !.active_nodes = <<>>,
                        !.sampled_nodes = {},
                        !.node_times = <<>>,
                        !.name = <<>>,
                        !.nstate = <<>>,
                        !.branch_length = <<>>,
                        !.parent = <<>>,
                        !.children = <<>>]
        m1 == get_new_node(m0, m.init_state)
    IN  [m1 EXCEPT !.tree = m1.next_node_id,
                   !.run_stochastic_events = m.stochastic_events,
                   !.run_timed_events = m.timed_events]

\* MetadataMixin.__setitem__
setitem(m, key, value) ==
    [m EXCEPT !.metadata = [k \in DOMAIN @ \cup {key} |->
                               IF k = key THEN value ELSE @[k]]]

\* Model.add_run_stochastic_event
add_run_stochastic_event(m, event) ==
    [m EXCEPT !.run_stochastic_events = Append(@, event)]

\* Model.add_run_timed_event
add_run_timed_event(m, event) ==
    [m EXCEPT !.run_timed_events = Append(@, event)]

(* ------------------------------ configurations ------------------------ *)
Ev(kind, rate, state, target_state, removal) ==
    [kind |-> kind, rate |-> rate, state |-> state,
     target_state |-> target_state, removal |-> removal]

Timed(times, state, proportion, removal) ==
    [times |-> times, state |-> state, proportion |-> proportion, removal |-> removal]

\* the SIR model of get_SIR_model with a timed sampling of half the lineages
ConfigSIR ==
    [init_state |-> INFECTIOUS_STATE,
     init_metadata |-> Some([k \in {SUSCEPTIBLES_KEY} |-> 2]),
     stochastic_events |->
        << Ev("Transmission", Sky(<<1, 0>>, <<1>>), None, "", FALSE),
           Ev("Death", Const(1), Some(INFECTIOUS_STATE), "", FALSE),
           Ev("Sampling", Const(1), Some(INFECTIOUS_STATE), "", TRUE) >>,
     timed_events |-> << Timed(<<1, 2>>, None, 50, FALSE) >>]

\* two states with migration, sampling without removal, two timed samplings
\* that share a fire time
ConfigMig ==
    [init_state |-> "I",
     init_metadata |-> None,
     stochastic_events |->
        << Ev("Migration", Sky(<<0, 2>>, <<1>>), Some("I"), "S", FALSE),
           Ev("Death", Const(1), Some("S"), "", FALSE),
           Ev("Sampling", Sky(<<1, 0>>, <<2>>), None, "", FALSE) >>,
     timed_events |-> << Timed(<<2>>, Some("I|S"), 100, TRUE),
                         Timed(<<1, 2>>, Some("S"), 50, FALSE) >>]

\* one death event and one timed sampling: the model the calls from outside
\* are made on
ConfigApi ==
    [init_state |-> "I",
     init_metadata |-> None,
     stochastic_events |-> << Ev("Death", Const(1), Some("I"), "", FALSE) >>,
     timed_events |-> << Timed(<<1>>, None, 100, TRUE) >>]

ModelConfigs == {ConfigSIR, ConfigMig}

Max(S) == CHOOSE x \in S : \A y \in S : x >= y

\* the times at which a configuration schedules something: the fire times of
\* its timed events and the change times of its rates
ScheduledTimes(c) ==
    UNION {Range(c.timed_events[i].times) : i \in 1..Len(c.timed_events)}
    \cup UNION {Range(c.stochastic_events[i].rate.change_times) :
                  i \in 1..Len(c.stochastic_events)}

\* the horizon of the runs: the last time any configuration schedules
MaxTime == Max(UNION {ScheduledTimes(c) : c \in ModelConfigs \cup {ConfigApi}})

Constructed(c) ==
    [current_time |-> 0, next_node_id |-> 0, active_nodes |-> <<>>,
     sampled_nodes |-> {}, node_times |-> <<>>, tree |-> 0,
     name |-> <<>>, nstate |-> <<>>,
     branch_length |-> <<>>, parent |-> <<>>,
     children |-> <<>>, metadata |-> NoMetadata,
     init_state |-> c.init_state, init_metadata |-> c.init_metadata,
     stochastic_events |-> c.stochastic_events, timed_events |-> c.timed_events,
     run_stochastic_events |-> <<>>, run_timed_events |-> <<>>, raised |-> ""]

\* step_log when the last call was not step()
NoStep == [stepped |-> FALSE, stochastic_event_time |-> None, log |-> <<>>,
           ret |-> FALSE, raised |-> ""]

\* no call of simulate_tree is in progress
SimIdle == [pc |-> "none"]

\* the state after construction with configuration c and the first reset()
InitWith(c) ==
        LET m == reset(Constructed(c)) IN
        /\ current_time = m.current_time
        /\ next_node_id = m.next_node_id
        /\ active_nodes = m.active_nodes
        /\ sampled_nodes = m.sampled_nodes
        /\ node_times = m.node_times
        /\ tree = m.tree
        /\ name = m.name
        /\ nstate = m.nstate
        /\ branch_length = m.branch_length
        /\ parent = m.parent
        /\ children = m.children
        /\ metadata = m.metadata
        /\ init_state = m.init_state
        /\ init_metadata = m.init_metadata
        /\ stochastic_events = m.stochastic_events
        /\ timed_events = m.timed_events
        /\ run_stochastic_events = m.run_stochastic_events
        /\ run_timed_events = m.run_timed_events
        /\ calls = 0
        /\ step_log = NoStep

Created == 1..next_node_id

\* the state after a call that ends in m, within the bounds on the nodes a
\* run creates and the time it reaches
Call(m) ==
    /\ m.next_node_id <= MaxNodes
    /\ m.current_time <= MaxTime
    /\ Set(m)
    /\ UNCHANGED <<sim, param, io, pool>>

\* a call made from outside the model's own events; step_log keeps the
\* exception it raised
Api(m) ==
    /\ calls < MaxCalls
    /\ Call(m)
    /\ calls' = calls + 1
    /\ step_log' = [NoStep EXCEPT !.raised = m.raised]

Reset == Call(reset(M)) /\ calls' = 0 /\ step_log' = NoStep

GetNewNode == \E s \in States : Api(get_new_node(M, s))

Fix == \E n \in Created : Api(fix(M, n))

Stem == \E n \in Created, s \in States : Api(stem(M, n, s))

Remove == \E n \in Created : Api(remove(M, n))

Migrate == \E n \in Created, s \in States : Api(migrate(M, n, s))

BirthFrom == \E n \in Created, s \in States : Api(birth_from(M, n, s))

Sample == \E n \in Created, removal \in BOOLEAN : Api(sample(M, n, removal))

\* the values of rng.random(), in hundredths
RandomDraws == {0, 30, 60, 99}

\* the draws of rng.random() for the nodes of m that are below 1/100 for the
\* nodes of X and 99/100 for the others
CoinOf(m, X) == [n \in 1..m.next_node_id |-> IF n \in X THEN 0 ELSE 99]

\* the sets of nodes for which timed event i, applied at time t to m, may draw
\* below its proportion
TimedChoices(m, t, i) ==
    IF /\ i <= Len(m.run_timed_events)
       /\ t \in Range(m.run_timed_events[i].times)
       /\ m.run_timed_events[i].proportion > 0
       /\ m.run_timed_events[i].proportion < 100
    THEN SUBSET Range(get_active_nodes(m, m.run_timed_events[i].state))
    ELSE {{}}

\* m after timed event i, if it holds the time t
AfterTimed(m, t, i, X) ==
    IF i <= Len(m.run_timed_events) /\ t \in Range(m.run_timed_events[i].times)
       /\ m.raised = ""
    THEN apply_timed(m.run_timed_events[i], m, CoinOf(m, X))
    ELSE m

\* the values of the argument max_time: none, and the times up to one past
\* the horizon
MaxTimeArgs == {None} \cup {Some(t) : t \in 0..(MaxTime + 1)}

DrawFilter(e) == IF e.kind = "Transmission" THEN Some(INFECTIOUS_STATE) ELSE e.state

\* the nodes rng.choice may return when event idx draws from m; 0 stands for
\* the IndexError of an empty list
PickSet(m, idx) ==
    IF m.raised # "" \/ idx > Len(m.run_stochastic_events) THEN {0}
    ELSE LET l == get_active_nodes(m, DrawFilter(m.run_stochastic_events[idx]))
         IN  IF l = <<>> THEN {0} ELSE Range(l)

\* one value of rng.random() for each event index the values of RandomDraws
\* select
EventDraws(st) ==
    {Min({r \in RandomDraws : searchsorted(st.propensities, st.total_propensity, r) = i}) :
       i \in {searchsorted(st.propensities, st.total_propensity, r) : r \in RandomDraws}}

\* what step_log keeps of a step: the exponential draw, the events applied,
\* the argument max_time, the value returned and the exception raised
StepLog(res, logged, max_time) ==
    [stepped |-> TRUE,
     stochastic_event_time |-> IF logged THEN res.st.stochastic_event_time ELSE None,
     log |-> IF logged THEN res.log ELSE <<>>,
     max_time |-> IF logged THEN max_time ELSE None,
     ret |-> res.ret, raised |-> res.m.raised]

StepWith(logged) ==
    \E max_time \in MaxTimeArgs, delta \in 0..(MaxTime + 1 - current_time) :
    \E st \in {step_times(M, delta)} :
      /\ IsNone(st.stochastic_event_time) => delta = 0
      /\ IF Candidates(st) = {}
         THEN /\ UNCHANGED <<model_state, calls, sim, param, io, pool>>
              /\ step_log' = StepLog(step(M, max_time, delta, <<>>, 0, 0), logged, max_time)
         ELSE
           \E m1 \in {step_advance(M, st, max_time)} :
           \E fires_timed \in {Some(m1.current_time) = st.timed_events_time},
              fires_stoch \in {Some(m1.current_time) = st.stochastic_event_time} :
             /\ m1.current_time <= MaxTime
             /\ \E X1 \in (IF fires_timed THEN TimedChoices(m1, m1.current_time, 1)
                           ELSE {{}}) :
                \E a1 \in {IF fires_timed THEN AfterTimed(m1, m1.current_time, 1, X1)
                           ELSE m1} :
                \E X2 \in (IF fires_timed THEN TimedChoices(a1, m1.current_time, 2)
                           ELSE {{}}) :
                \E a2 \in {IF fires_timed THEN AfterTimed(a1, m1.current_time, 2, X2)
                           ELSE a1} :
                  /\ a2.next_node_id <= MaxNodes
                  /\ \E r \in (IF fires_stoch THEN EventDraws(st) ELSE {0}) :
                     \E pick \in (IF fires_stoch
                                  THEN PickSet(a2, searchsorted(st.propensities,
                                                      st.total_propensity, r) + 1)
                                  ELSE {0}) :
                     \E res \in {step(M, max_time, delta,
                                      << CoinOf(a1, X1), CoinOf(a2, X2) >>, r, pick)} :
                        /\ Call(res.m)
                        /\ UNCHANGED calls
                        /\ step_log' = StepLog(res, logged, max_time)

\* step() called from outside
Step == StepWith(FALSE)

\* step() with the times it computed and the events it applied recorded
StepLogged == StepWith(TRUE)

Init == InitWith(ConfigApi) /\ sim = SimIdle /\ io = None /\ pool = None /\ param = None

Next ==
    \/ Reset
    \/ GetNewNode
    \/ Fix
    \/ Stem
    \/ Remove
    \/ Migrate
    \/ BirthFrom
    \/ Sample
    \/ Step

Spec == Init /\ [][Next]_vars

\* runs driven by step() alone
InitStep == sim = SimIdle /\ io = None /\ pool = None /\ param = None /\ \E c \in ModelConfigs : InitWith(c)

NextStep ==
    \/ Reset
    \/ StepLogged

SpecStep == InitStep /\ [][NextStep]_vars

\* model["key"] = value from outside
SetItem ==
    \E key \in {SUSCEPTIBLES_KEY, "note"}, value \in {0, 3} : Api(setitem(M, key, value))

\* one event registered for the current run only
AddRunStochasticEvent ==
    /\ Len(run_stochastic_events) = Len(stochastic_events)
    /\ Api(add_run_stochastic_event(M, Ev("Death", Const(1), Some(INFECTIOUS_STATE), "", FALSE)))

AddRunTimedEvent ==
    /\ Len(run_timed_events) = Len(timed_events)
    /\ Api(add_run_timed_event(M, Timed(<<MaxTime>>, None, 100, TRUE)))

\* runs with metadata writes and run-time registrations between the steps
InitRun == sim = SimIdle /\ io = None /\ pool = None /\ param = None /\ \E c \in {ConfigSIR, ConfigApi} : InitWith(c)

NextRun ==
    \/ Reset
    \/ Step
    \/ SetItem
    \/ AddRunStochasticEvent
    \/ AddRunTimedEvent

SpecRun == InitRun /\ [][NextRun]_vars

(* ------------- models/base.py, models/unbounded_population.py --------- *)
\* A population model value u is a record of the fields of
\* UnboundedPopulationModel and of its nodes.  Individuals and nodes are
\* numbered in creation order; the dicts keyed by them are lists.

\* sorted(S) for a set S
RECURSIVE SortedSeq(_)
SortedSeq(S) == IF S = {} THEN <<>> ELSE <<Min(S)>> \o SortedSeq(S \ {Min(S)})

\* Model.init (models/base.py)
base_init(u) ==
    [u EXCEPT !.next_individual_id = 0,
              !.population = [s \in States |-> {}],
              !.states = <<>>]

\* Model.create_new_individual; the new individual is next_individual_id
create_new_individual(u, state) ==
    [u EXCEPT !.next_individual_id = @ + 1,
              !.population[state] = @ \cup {u.next_individual_id + 1},
              !.states = Append(@, Some(state))]

\* Model.remove_individual
remove_individual(u, individual) ==
    IF individual \notin 1..Len(u.states) \/ IsNone(u.states[individual])
    THEN Raise(u, "KeyError")
    ELSE [u EXCEPT !.population[Val(u.states[individual])] = @ \ {individual},
                   !.states[individual] = None]

\* Model.migrate_individual
migrate_individual(u, individual, new_state) ==
    IF individual \notin 1..Len(u.states) \/ IsNone(u.states[individual])
    THEN Raise(u, "KeyError")
    ELSE LET u1 == [u EXCEPT !.population[Val(u.states[individual])] = @ \ {individual},
                             !.states[individual] = Some(new_state)]
         IN  [u1 EXCEPT !.population[new_state] = @ \cup {individual}]

\* Model.get_individuals; a set of small integers lists in increasing order,
\* and so do the keys of _states, which are inserted in increasing order
get_individuals(u, state) ==
    IF IsNone(state)
    THEN SortedSeq({i \in 1..Len(u.states) : ~IsNone(u.states[i])})
    ELSE SortedSeq(u.population[Val(state)])

\* Model.count_individuals
count_individuals(u, state) == Len(get_individuals(u, state))

\* UnboundedPopulationModel._get_new_node; the new node is the last of u.name
upm_get_new_node(u, state) ==
    [u EXCEPT !.next_node_id = @ + 1,
              !.name = Append(@, get_node_name(u.next_node_id + 1, state)),
              !.branch_length = Append(@, None),
              !.parent = Append(@, 0),
              !.children = Append(@, <<>>),
              !.times = Append(@, None)]

\* UnboundedPopulationModel._get_new_individual
upm_get_new_individual(u, state) ==
    LET u1 == upm_get_new_node(create_new_individual(u, state), state)
    IN  [u1 EXCEPT !.nodes = Append(@, Len(u1.name))]

\* init() that keeps the names of the last attempt in _sampled
upm_init_KeepsSampled(u) ==
    LET u0 == [base_init(u) EXCEPT !.next_node_id = 0, !.times = <<>>, !.nodes = <<>>,
                                   !.name = <<>>, !.branch_length = <<>>,
                                   !.parent = <<>>, !.children = <<>>, !.raised = ""]
        u1 == upm_get_new_individual(u0, u.init_state)
    IN  [u1 EXCEPT !.tree = u1.nodes[u1.next_individual_id]]

\* init() that goes on numbering the nodes where the last run stopped
upm_init_KeepsNodeIds(u) ==
    LET u0 == [base_init(u) EXCEPT !.sampled_nodes = {}, !.times = <<>>, !.nodes = <<>>,
                                   !.name = <<>>, !.branch_length = <<>>,
                                   !.parent = <<>>, !.children = <<>>, !.raised = ""]
        u1 == upm_get_new_individual(u0, u.init_state)
    IN  [u1 EXCEPT !.tree = u1.nodes[u1.next_individual_id]]

\* UnboundedPopulationModel.init
upm_init(u) ==
    LET u0 == [base_init(u) EXCEPT !.next_node_id = 0, !.sampled_nodes = {},
                                   !.times = <<>>, !.nodes = <<>>,
                                   !.name = <<>>, !.branch_length = <<>>,
                                   !.parent = <<>>, !.children = <<>>, !.raised = ""]
        u1 == upm_get_new_individual(u0, u.init_state)
    IN  [u1 EXCEPT !.tree = u1.nodes[u1.next_individual_id]]

\* UnboundedPopulationModel.tree_size
upm_tree_size(u) == Cardinality(u.sampled_nodes)

\* UnboundedPopulationModel._set_branch_length
set_branch_length(u, node, time) ==
    IF ~IsNone(u.branch_length[node]) THEN Raise(u, "ValueError")
    ELSE LET parent_time == IF u.parent[node] = 0 THEN Some(0)
                            ELSE u.times[u.parent[node]]
         IN  IF IsNone(parent_time) THEN Raise(u, "KeyError")
             ELSE [u EXCEPT !.branch_length[node] = Some(time - Val(parent_time)),
                            !.times[node] = Some(time)]

\* UnboundedPopulationModel._stem
upm_stem(u, individual, time) ==
    LET u1 == set_branch_length(u, u.nodes[individual], time)
    IN  IF u1.raised # "" THEN u1
        ELSE IF IsNone(u1.states[individual]) THEN Raise(u1, "KeyError")
        ELSE LET u2 == upm_get_new_node(u1, Val(u1.states[individual]))
                 u3 == add_child(u2, u.nodes[individual], Len(u2.name))
             IN  IF u3.raised # "" THEN u3
                 ELSE [u3 EXCEPT !.nodes[individual] = Len(u2.name)]

\* UnboundedPopulationModel.remove
upm_remove(u, individual, time) ==
    LET u1 == remove_individual(u, individual)
    IN  IF u1.raised # "" THEN u1
        ELSE set_branch_length(u1, u1.nodes[individual], time)

\* UnboundedPopulationModel.migrate
upm_migrate(u, individual, new_state, time) ==
    LET u1 == migrate_individual(u, individual, new_state)
    IN  IF u1.raised # "" THEN u1 ELSE upm_stem(u1, individual, time)

\* UnboundedPopulationModel.birth_from
upm_birth_from(u, parent_individual, new_state, time) ==
    LET u1 == upm_get_new_individual(u, new_state)
        u2 == add_child(u1, u1.nodes[parent_individual],
                        u1.nodes[u1.next_individual_id])
    IN  IF u2.raised # "" THEN u2 ELSE upm_stem(u2, parent_individual, time)

\* UnboundedPopulationModel.sample
upm_sample(u, individual, time, removal) ==
    IF removal
    THEN upm_remove([u EXCEPT !.sampled_nodes = @ \cup {u.name[u.nodes[individual]]}],
                    individual, time)
    ELSE IF IsNone(u.states[individual]) THEN Raise(u, "KeyError")
    ELSE LET u1 == upm_get_new_node(u, Val(u.states[individual]))
             sample_node == Len(u1.name)
             u2 == [u1 EXCEPT !.branch_length[sample_node] = Some(0),
                              !.sampled_nodes = @ \cup {u1.name[sample_node]}]
             u3 == add_child(u2, u2.nodes[individual], sample_node)
         IN  IF u3.raised # "" THEN u3 ELSE upm_stem(u3, individual, time)

\* UnboundedPopulationModel.get_tree: the same loop as Model.get_tree
upm_get_tree(u) == prune(u, iter_postorder(u.children, u.tree), 1)

\* UnboundedPopulationModel.__init__
upm_new(state) ==
    upm_init([next_individual_id |-> 0, population |-> [s \in States |-> {}],
              states |-> <<>>, nodes |-> <<>>, next_node_id |-> 0,
              sampled_nodes |-> {}, times |-> <<>>, tree |-> 0, name |-> <<>>,
              branch_length |-> <<>>, parent |-> <<>>, children |-> <<>>,
              init_state |-> state, raised |-> ""])

(* ------------------------------ events/base.py ------------------------ *)
\* Event.get_propensity for an event with the reactants {state: 1}
event_propensity(e, u, time) ==
    get_value_at_time(e.rate, time) * count_individuals(u, e.state)

\* the handlers of the events: birth_event, death_event, migration_event and
\* sampling_event, the individual drawn being `pick` (0: rng.choice had an
\* empty list to draw from)
event_apply(e, u, time, pick) ==
    IF pick = 0 THEN Raise(u, "ValueError: empty choice")
    ELSE CASE e.kind = "Birth"     -> upm_birth_from(u, pick, e.target_state, time)
           [] e.kind = "Death"     -> upm_remove(u, pick, time)
           [] e.kind = "Migration" -> upm_migrate(u, pick, e.target_state, time)
           [] e.kind = "Sampling"  -> upm_sample(u, pick, time, e.removal)

RECURSIVE timed_sample_each(_, _, _, _, _, _)
\* the loop of timed_sampling_event over the list l of individuals; X holds
\* those for which rng.random() < proportion
timed_sample_each(e, u, time, l, X, i) ==
    IF i > Len(l) \/ u.raised # "" THEN u
    ELSE timed_sample_each(e,
                           IF l[i] \in X THEN upm_sample(u, l[i], time, e.removal) ELSE u,
                           time, l, X, i + 1)

\* timed_sampling_event
timed_apply(e, u, time, X) ==
    timed_sample_each(e, u, time, get_individuals(u, e.state), X, 1)

RECURSIVE insert_sorted(_, _)
insert_sorted(s, x) ==
    IF s = <<>> THEN <<x>>
    ELSE IF x < Head(s) THEN <<x>> \o s
    ELSE <<Head(s)>> \o insert_sorted(Tail(s), x)

RECURSIVE sorted(_)
\* sorted(times) of TimedEvent.__init__: duplicates are kept
sorted(s) == IF s = <<>> THEN <<>> ELSE insert_sorted(sorted(Tail(s)), Head(s))

(* ------------------------------ gillespie.py -------------------------- *)
\* the optional first element of a list and the rest: xs.pop(0) if xs else None
pop_first(xs) == IF xs = <<>> THEN None ELSE Some(Head(xs))
pop_rest(xs) == IF xs = <<>> THEN <<>> ELSE Tail(xs)

\* the check of the termination criterion that accepts all but a call with
\* neither limit
rejects_OnlyNeither(n_leaves, max_time) == IsNone(max_time) /\ IsNone(n_leaves)

\* simulate_tree: (max_time is None) == (n_leaves is None)
rejects(n_leaves, max_time) == IsNone(max_time) = IsNone(n_leaves)

RECURSIVE build_events_at_time(_, _, _, _)
\* the loops that fill events_at_time, a dict from a time to the list of the
\* timed events (by position) that hold it, one entry per occurrence
build_events_at_time(tes, i, j, acc) ==
    IF i > Len(tes) THEN acc
    ELSE IF j > Len(tes[i].times) THEN build_events_at_time(tes, i + 1, 1, acc)
    ELSE LET t == tes[i].times[j]
         IN  build_events_at_time(tes, i, j + 1,
                 [x \in DOMAIN acc \cup {t} |->
                     IF x \in DOMAIN acc
                     THEN (IF x = t THEN Append(acc[x], i) ELSE acc[x])
                     ELSE <<i>>])

NoTimes == [x \in {} |-> <<>>]

\* acceptance_criterion(tree) for the criterion "at least k leaves"
accepts(criterion, g) == Cardinality(Leaves(g.t.children, g.root)) >= criterion

\* lines 32-42 of simulate_tree: the call, up to the start of the clock
sim_call(s) ==
    IF rejects(s.args.n_leaves, s.args.max_time)
    THEN [s EXCEPT !.pc = "raised", !.exc = "ValueError: exactly one"]
    ELSE [s EXCEPT !.pc = "attempt",
                   !.events_at_time =
                       build_events_at_time(s.args.timed_events, 1, 1, NoTimes),
                   !.pos = 1,
                   !.tape = IF s.run = 1 THEN <<>> ELSE @,
                   !.start_clock = s.clock,
                   !.call_clock = s.clock,
                   !.attempts = 0]

\* the start of an attempt with the clock started again
sim_attempt_RestartsClock(s) ==
    LET change_times ==
            SortedSeq(UNION {Range(s.args.events[i].rate.change_times) :
                               i \in 1..Len(s.args.events)})
        timed_event_times == SortedSeq(DOMAIN s.events_at_time)
    IN  [s EXCEPT !.pc = "loop",
                  !.u = upm_init(s.u),
                  !.start_clock = s.clock,
                  !.current_time = 0,
                  !.next_change_time = pop_first(change_times),
                  !.change_times = pop_rest(change_times),
                  !.next_timed_event_time = pop_first(timed_event_times),
                  !.timed_event_times = pop_rest(timed_event_times),
                  !.attempts = @ + 1,
                  !.fired = <<>>]

\* lines 44-49 of simulate_tree: the start of an attempt
sim_attempt(s) ==
    LET change_times ==
            SortedSeq(UNION {Range(s.args.events[i].rate.change_times) :
                               i \in 1..Len(s.args.events)})
        timed_event_times == SortedSeq(DOMAIN s.events_at_time)
    IN  [s EXCEPT !.pc = "loop",
                  !.u = upm_init(s.u),
                  !.current_time = 0,
                  !.next_change_time = pop_first(change_times),
                  !.change_times = pop_rest(change_times),
                  !.next_timed_event_time = pop_first(timed_event_times),
                  !.timed_event_times = pop_rest(timed_event_times),
                  !.attempts = @ + 1,
                  !.fired = <<>>]

\* the condition of the inner loop
sim_loop_condition(s) ==
    IsNone(s.args.n_leaves) \/ upm_tree_size(s.u) < Val(s.args.n_leaves)

\* the timeout check of line 52
sim_timed_out(s) ==
    ~IsNone(s.args.timeout) /\ s.clock - s.start_clock > Val(s.args.timeout)

\* lines 55-61: [propensities, total_propensity, next_event_time], the value
\* of rng.exponential being delta
sim_times(s, delta) ==
    LET propensities == [i \in 1..Len(s.args.events) |->
                            event_propensity(s.args.events[i], s.u, s.current_time)]
        total_propensity == Sum2(propensities, Len(propensities))
    IN  [propensities |-> propensities,
         total_propensity |-> total_propensity,
         next_event_time |-> IF total_propensity # 0
                             THEN Some(s.current_time + delta) ELSE None]

\* the conditions of lines 63-95
sim_branch(s, st) ==
    LET max_time == s.args.max_time IN
    IF /\ ~IsNone(s.next_change_time)
       /\ (IsNone(st.next_event_time)
             \/ Val(s.next_change_time) < Val(st.next_event_time))
       /\ (IsNone(s.next_timed_event_time)
             \/ Val(s.next_change_time) <= Val(s.next_timed_event_time))
       /\ (IsNone(max_time) \/ Val(s.next_change_time) < Val(max_time))
    THEN "rate_change"
    ELSE IF /\ ~IsNone(s.next_timed_event_time)
            /\ (IsNone(st.next_event_time)
                  \/ Val(s.next_timed_event_time) < Val(st.next_event_time))
            /\ (IsNone(max_time) \/ Val(s.next_timed_event_time) <= Val(max_time))
    THEN "timed"
    ELSE IF /\ ~IsNone(st.next_event_time)
            /\ (IsNone(max_time) \/ Val(st.next_event_time) < Val(max_time))
    THEN "stochastic"
    ELSE "break"

RECURSIVE sim_apply_timed(_, _, _, _, _, _)
\* the loop of lines 80-81 over tes, the list events_at_time[current_time]:
\* [u, applied]; Xs[k] holds the individuals the k-th application samples, and
\* applied lists the events applied so far in the attempt, with their times
sim_apply_timed(s, u, tes, Xs, k, applied) ==
    IF k > Len(tes) \/ u.raised # "" THEN [u |-> u, applied |-> applied]
    ELSE sim_apply_timed(s,
             timed_apply(s.args.timed_events[tes[k]], u, Val(s.next_timed_event_time), Xs[k]),
             tes, Xs, k + 1,
             Append(applied, <<"timed", tes[k], Val(s.next_timed_event_time)>>))

\* one iteration of the inner loop, lines 51-95, the values drawn being
\* d = [delta, r, pick, Xs]
sim_iterate(s, d) ==
    IF ~sim_loop_condition(s) THEN [s EXCEPT !.pc = "after"]
    ELSE IF sim_timed_out(s) THEN [s EXCEPT !.pc = "raised", !.exc = "TimeoutError"]
    ELSE
      LET st == sim_times(s, d.delta)
          branch == sim_branch(s, st)
          s1 == [s EXCEPT !.pos = @ + 1,
                          !.tape = IF s.run = 1 THEN Append(@, d) ELSE @]
      IN  CASE branch = "rate_change" ->
                 [s1 EXCEPT !.current_time = Val(s.next_change_time),
                            !.next_change_time = pop_first(s.change_times),
                            !.change_times = pop_rest(s.change_times)]
            [] branch = "timed" ->
                 LET a == sim_apply_timed(s, s.u,
                              s.events_at_time[Val(s.next_timed_event_time)],
                              d.Xs, 1, s.fired)
                 IN  [s1 EXCEPT !.current_time = Val(s.next_timed_event_time),
                                !.u = a.u,
                                !.pc = IF a.u.raised # "" THEN "raised" ELSE @,
                                !.exc = a.u.raised,
                                !.next_timed_event_time = pop_first(s.timed_event_times),
                                !.timed_event_times = pop_rest(s.timed_event_times),
                                !.fired = a.applied]
            [] branch = "stochastic" ->
                 LET event_idx == searchsorted(st.propensities, st.total_propensity, d.r) + 1
                     u1 == IF event_idx > Len(s.args.events) THEN Raise(s.u, "IndexError")
                           ELSE event_apply(s.args.events[event_idx], s.u,
                                            Val(st.next_event_time), d.pick)
                 IN  [s1 EXCEPT !.current_time = Val(st.next_event_time),
                                !.u = u1,
                                !.pc = IF u1.raised # "" THEN "raised" ELSE @,
                                !.exc = u1.raised,
                                !.fired = Append(@, <<"stochastic", event_idx,
                                                      Val(st.next_event_time)>>)]
            [] OTHER ->
                 [s1 EXCEPT !.pc = "after"]

\* lines 97-115 of simulate_tree: the attempt is discarded or its tree returned
sim_finish(s) ==
    IF ~IsNone(s.args.n_leaves) /\ upm_tree_size(s.u) < Val(s.args.n_leaves)
    THEN [s EXCEPT !.pc = "attempt"]
    ELSE LET g == upm_get_tree(s.u)
         IN  IF g.kind = "error" THEN [s EXCEPT !.pc = "raised", !.exc = "TypeError"]
             ELSE IF g.kind = "none"
                     \/ (~IsNone(s.args.acceptance_criterion)
                           /\ ~accepts(Val(s.args.acceptance_criterion), g))
             THEN [s EXCEPT !.pc = "attempt"]
             ELSE [s EXCEPT !.pc = "returned",
                            !.result = [root |-> g.root, name |-> g.t.name,
                                        children |-> g.t.children,
                                        parent |-> g.t.parent,
                                        branch_length |-> g.t.branch_length]]

\* the arguments of a call
Args(events, timed, n_leaves, max_time, timeout, criterion) ==
    [events |-> events, timed_events |-> timed, n_leaves |-> n_leaves,
     max_time |-> max_time, timeout |-> timeout, acceptance_criterion |-> criterion]

\* births whose rate stops at time 1, sampling with removal, and a timed
\* sampling whose list of times holds the time 1 twice
EventsBirth ==
    << Ev("Birth", Sky(<<1, 0>>, <<1>>), Some("I"), "I", FALSE),
       Ev("Sampling", Const(1), Some("I"), "", TRUE) >>

TimedTwice == << Timed(sorted(<<1, 1>>), Some("I"), 100, FALSE) >>

\* a timed sampling that samples and removes every lineage at time 1
TimedRemoval == << Timed(<<1>>, Some("I"), 100, TRUE) >>

\* migration, death, sampling without removal and a timed sampling at time 2
EventsMig ==
    << Ev("Migration", Const(1), Some("I"), "S", FALSE),
       Ev("Death", Const(1), Some("S"), "", FALSE),
       Ev("Sampling", Sky(<<0, 1>>, <<1>>), Some("S"), "", FALSE) >>

TimedOnce == << Timed(sorted(<<2, 1>>), Some("S"), 100, TRUE) >>

\* the calls that are made
SimArgs ==
    {Args(EventsBirth, TimedTwice, n, mt, None, None) :
        n \in {None, Some(2)}, mt \in {None, Some(MaxTime)}}
    \cup {Args(EventsBirth, TimedTwice, None, Some(MaxTime), None, Some(2)),
          Args(EventsMig, TimedOnce, Some(1), None, Some(1), None),
          Args(EventsBirth, TimedRemoval, Some(2), None, None, None)}

\* the driver before the call, on a model that was just constructed
SimStart(args) ==
    [pc |-> "idle", args |-> args, run |-> 1, exc |-> "", result |-> None,
     result1 |-> None, tape |-> <<>>, pos |-> 1, events_at_time |-> NoTimes,
     start_clock |-> 0, call_clock |-> 0, clock |-> 0, u |-> upm_new("I"),
     current_time |-> 0, change_times |-> <<>>, next_change_time |-> None,
     timed_event_times |-> <<>>, next_timed_event_time |-> None,
     attempts |-> 0, fired |-> <<>>]

RECURSIVE TimedOutcomes(_, _, _)
\* for the applications k.. of the timed events tes, the sets of individuals
\* for which rng.random() < proportion may hold
TimedOutcomes(s, tes, k) ==
    IF k > Len(tes) THEN {<<>>}
    ELSE LET e == s.args.timed_events[tes[k]]
             inds == 1..s.u.next_individual_id
             Xk == IF e.proportion >= 100 THEN {inds}
                   ELSE IF e.proportion <= 0 THEN {{}}
                   ELSE SUBSET inds
         IN  {<<X>> \o rest : X \in Xk, rest \in TimedOutcomes(s, tes, k + 1)}

\* the values an iteration may draw: rng.exponential, rng.random, rng.choice
\* and the outcomes of the timed events; the second call with the same seed
\* draws what the first one drew
SimDraws(s) ==
    IF s.run = 2 /\ s.pos <= Len(s.tape) THEN {s.tape[s.pos]}
    ELSE IF ~sim_loop_condition(s) \/ sim_timed_out(s)
    THEN {[delta |-> 0, r |-> 0, pick |-> 0, Xs |-> <<>>]}
    ELSE
      UNION {
        LET st == sim_times(s, delta)
            branch == sim_branch(s, st)
        IN  IF branch = "stochastic"
            THEN UNION {
                   LET idx == searchsorted(st.propensities, st.total_propensity, r) + 1
                       l == IF idx > Len(s.args.events) THEN <<>>
                            ELSE get_individuals(s.u, s.args.events[idx].state)
                   IN  {[delta |-> delta, r |-> r, pick |-> p, Xs |-> <<>>] :
                           p \in (IF l = <<>> THEN {0} ELSE Range(l))}
                   : r \in EventDraws(st)}
            ELSE IF branch = "timed"
            THEN {[delta |-> delta, r |-> 0, pick |-> 0, Xs |-> Xs] :
                    Xs \in TimedOutcomes(s, s.events_at_time[Val(s.next_timed_event_time)], 1)}
            ELSE {[delta |-> delta, r |-> 0, pick |-> 0, Xs |-> <<>>]}
        : delta \in (IF sim_times(s, 0).total_propensity = 0 THEN {0}
                     ELSE 0..(MaxTime + 1 - s.current_time))}

\* a step of the driver that ends in s, within the bounds
SimSet(s) ==
    /\ Len(s.u.name) <= MaxSimNodes
    /\ s.current_time <= MaxTime
    /\ sim' = s
    /\ UNCHANGED <<model_state, calls, step_log, param, io, pool>>

SimCall == sim.pc = "idle" /\ SimSet(sim_call(sim))

SimAttempt ==
    /\ sim.pc = "attempt"
    /\ sim.attempts < MaxAttempts
    /\ SimSet(sim_attempt(sim))

SimIterate == sim.pc = "loop" /\ \E d \in SimDraws(sim) : SimSet(sim_iterate(sim, d))

SimFinish == sim.pc = "after" /\ SimSet(sim_finish(sim))

\* wall-clock time passes during a call; it is read only when a timeout is given
SimTick ==
    /\ sim.pc \in {"attempt", "loop", "after"}
    /\ ~IsNone(sim.args.timeout)
    /\ sim.clock < MaxClock
    /\ SimSet([sim EXCEPT !.clock = @ + 1])

\* the same call again, with the same arguments and seed, on the same model
SimSecondCall ==
    /\ sim.pc = "returned"
    /\ sim.run = 1
    /\ IsNone(sim.args.timeout)
    /\ SimSet([sim EXCEPT !.pc = "idle", !.run = 2, !.result1 = sim.result,
                          !.result = None])

InitSim ==
    /\ InitWith(ConfigApi)
    /\ param = None /\ io = None /\ pool = None
    /\ \E args \in SimArgs : sim = SimStart(args)

NextSim ==
    \/ SimCall
    \/ SimAttempt
    \/ SimIterate
    \/ SimFinish
    \/ SimTick
    \/ SimSecondCall

SpecSim == InitSim /\ [][NextSim]_vars

(* ---------------- parameterizations/core.py: per-event firing times --- *)
\* _get_next_greater: the first of times, in their order, after current_time
get_next_greater(times, t) ==
    LET later == {i \in 1..Len(times) : times[i] > t}
    IN  IF later = {} THEN None ELSE Some(times[Min(later)])

\* SingleReactantEventFunction.reactant_combinations
reactant_combinations(m, fn) == count_active_nodes(m, fn.state)

\* StochasticEvent.get_next_firing_time, delta being the value of
\* rng.expovariate(propensity)
get_next_firing_time(m, e, delta) ==
    LET next_change_time == get_next_greater(e.rate.change_times, m.current_time)
        rate             == get_value_at_time(e.rate, m.current_time)
        propensity       == rate * reactant_combinations(m, e)
        next_firing_time == m.current_time + delta
    IN  IF propensity = 0 THEN next_change_time
        ELSE IF IsNone(next_change_time) THEN Some(next_firing_time)
        ELSE Some(Min({next_firing_time, Val(next_change_time)}))

\* Death.apply_to_node and Migration.apply_to_node
apply_to_node(m, fn, node) ==
    CASE fn.kind = "Death"     -> remove(m, node)
      [] fn.kind = "Migration" -> migrate(m, node, fn.target_state)

\* SingleReactantEventFunction.apply, pick being the node draw_one returns
\* (0: rng.choice of an empty list)
fn_apply(m, fn, pick) ==
    IF pick = 0 THEN Raise(m, "IndexError") ELSE apply_to_node(m, fn, pick)

\* apply() that runs the event function at a change time of the rate too
stochastic_event_apply_AtChangeTime(m, e, pick) == fn_apply(m, e, pick)

\* StochasticEvent.apply
stochastic_event_apply(m, e, pick) ==
    IF m.current_time \notin Range(e.rate.change_times) THEN fn_apply(m, e, pick)
    ELSE m

\* TimedEvent.get_next_firing_time
timed_get_next_firing_time(m, e) == get_next_greater(e.times, m.current_time)

\* self.firings as an int
IntFirings(n) == [float |-> FALSE, value |-> n]

\* self.firings as a float, in hundredths
FloatFirings(h) == [float |-> TRUE, value |-> h]

\* firings of TimedEvent.apply without the cap at max_firings
firings_Uncapped(m, e) ==
    LET max_firings == count_active_nodes(m, e.state)
    IN  IF e.firings.float THEN (e.firings.value * max_firings) \div 100
        ELSE e.firings.value

\* the firings TimedEvent.apply computes; max_firings is
\* SingleReactantEventFunction.max_firings
firings(m, e) ==
    LET max_firings == count_active_nodes(m, e.state)
    IN  IF e.firings.float THEN (e.firings.value * max_firings) \div 100
        ELSE Min({e.firings.value, max_firings})

RECURSIVE apply_firings(_, _, _, _)
\* SingleReactantEventFunction.apply_firings, nodes being the list rng.sample
\* returns
apply_firings(m, fn, nodes, i) ==
    IF i > Len(nodes) \/ m.raised # "" THEN m
    ELSE apply_firings(apply_to_node(m, fn, nodes[i]), fn, nodes, i + 1)

\* TimedEvent.apply
timed_event_apply(m, e, nodes) == apply_firings(m, e, nodes, 1)

\* the lists rng.sample(active_nodes, firings) may return
Samples(m, e) ==
    LET l == get_active_nodes(m, e.state)
        k == firings(m, e)
    IN  {s \in [1..k -> Range(l)] : \A i, j \in 1..k : s[i] = s[j] => i = j}

\* timed events applied from outside: two deaths, half of the lineages
\* migrating, every lineage of a state dying
TimedInputs ==
    {[times |-> <<>>, firings |-> IntFirings(2), kind |-> "Death",
      state |-> None, target_state |-> ""],
     [times |-> <<>>, firings |-> FloatFirings(50), kind |-> "Migration",
      state |-> None, target_state |-> "S"],
     [times |-> <<>>, firings |-> FloatFirings(100), kind |-> "Death",
      state |-> Some("I"), target_state |-> ""]}

\* event.apply(model) called from outside; step_log keeps the nodes drawn
ApplyTimedEvent ==
    \E e \in TimedInputs :
    \E nodes \in Samples(M, e) :
    \E m \in {timed_event_apply(M, e, nodes)} :
       /\ calls < MaxCalls
       /\ Call(m)
       /\ calls' = calls + 1
       /\ step_log' = [NoStep EXCEPT !.raised = m.raised, !.log = nodes]

\* the calls from outside, timed events among them
NextApply ==
    \/ Next
    \/ ApplyTimedEvent

SpecApply == Init /\ [][NextApply]_vars

\* migrations both ways with rates that change at times 1 and 2, a death rate
\* that is zero until time 2, and a timed death of one lineage at time 3
ConfigDrv ==
    [init_state |-> "I",
     init_metadata |-> None,
     stochastic_events |->
        << Ev("Migration", Sky(<<1, 2>>, <<1>>), Some("I"), "S", FALSE),
           Ev("Migration", Sky(<<1, 0>>, <<2>>), Some("S"), "I", FALSE),
           Ev("Death", Sky(<<0, 1>>, <<2>>), None, "", FALSE) >>,
     timed_events |-> << [times |-> <<3>>, firings |-> IntFirings(1), kind |-> "Death",
                          state |-> None, target_state |-> ""] >>]

\* a constant death rate, a migration whose rate changes at time 2 and a
\* timed migration of one lineage at times 1 and 3
ConfigDrvTimed ==
    [init_state |-> "S",
     init_metadata |-> None,
     stochastic_events |->
        << Ev("Migration", Sky(<<2, 1>>, <<2>>), Some("S"), "I", FALSE),
           Ev("Death", Const(1), Some("I|S"), "", FALSE) >>,
     timed_events |-> << [times |-> <<1, 3>>, firings |-> FloatFirings(100), kind |-> "Migration",
                          state |-> Some("I"), target_state |-> "S"] >>]

DrvConfigs == {ConfigDrv, ConfigDrvTimed}

\* the horizon of the runs of the driver
DrvMaxTime == Max(UNION {ScheduledTimes(c) : c \in DrvConfigs})

(* ---------------- the loop of the driver over these events ------------ *)
\* the next firing time of every event; deltas[k] is the exponential draw of
\* stochastic event k
drv_times(m, deltas) ==
    [stochastic |-> [k \in 1..Len(m.run_stochastic_events) |->
                        get_next_firing_time(m, m.run_stochastic_events[k], deltas[k])],
     timed      |-> [k \in 1..Len(m.run_timed_events) |->
                        timed_get_next_firing_time(m, m.run_timed_events[k])]]

\* the candidate times: the firing times and max_time
drv_candidates(ft, max_time) ==
    {Val(o) : o \in {x \in Range(ft.stochastic) \cup Range(ft.timed) \cup {max_time} :
                        ~IsNone(x)}}

\* the events whose firing time is t
drv_due(ft, t) ==
    {<<"stochastic", k>> : k \in {i \in DOMAIN ft.stochastic : ft.stochastic[i] = Some(t)}}
    \cup {<<"timed", k>> : k \in {i \in DOMAIN ft.timed : ft.timed[i] = Some(t)}}

\* the models event d may leave, one for each draw it may make
drv_apply_one(m, d) ==
    IF d[1] = "stochastic"
    THEN LET e == m.run_stochastic_events[d[2]]
             l == get_active_nodes(m, e.state)
         IN  {stochastic_event_apply(m, e, pick) :
                pick \in IF l = <<>> THEN {0} ELSE Range(l)}
    ELSE LET e == m.run_timed_events[d[2]]
         IN  {timed_event_apply(m, e, nodes) : nodes \in Samples(m, e)}

RECURSIVE drv_apply_all(_, _)
\* the outcomes of applying the events of due, each once, in any order;
\* acted lists, in order, the events whose application changed the model
drv_apply_all(x, due) ==
    IF due = {} \/ x.m.raised # "" THEN {x}
    ELSE UNION {UNION {drv_apply_all([m |-> m2,
                                      acted |-> IF m2 = x.m THEN x.acted
                                                ELSE Append(x.acted, d)],
                                     due \ {d}) :
                          m2 \in drv_apply_one(x.m, d)} :
                  d \in due}

\* what step_log keeps of an iteration
DrvLog(ft, acted, ret, raised) ==
    [stepped |-> TRUE, firing_times |-> ft, acted |-> acted, ret |-> ret,
     raised |-> raised]

\* one iteration of the loop: firing times, candidates, advance, apply, stop
\* at max_time
DrvIterate ==
    /\ step_log.raised = ""
    /\ current_time < DrvMaxTime
    /\ \E max_time \in {None, Some(DrvMaxTime)},
          deltas \in [1..Len(run_stochastic_events) -> 0..(DrvMaxTime - current_time)] :
       \E ft \in {drv_times(M, deltas)} :
         IF drv_candidates(ft, max_time) = {}
         THEN /\ step_log' = DrvLog(ft, <<>>, FALSE, "")
              /\ UNCHANGED <<model_state, calls, sim, param, io, pool>>
         ELSE \E t \in {Min(drv_candidates(ft, max_time))} :
              \E x \in drv_apply_all([m |-> [M EXCEPT !.current_time = t],
                                      acted |-> <<>>],
                                     drv_due(ft, t)) :
                /\ t <= DrvMaxTime
                /\ x.m.next_node_id <= MaxNodes
                /\ Set(x.m)
                /\ step_log' = DrvLog(ft, x.acted, ~(Some(t) = max_time), x.m.raised)
                /\ UNCHANGED <<calls, sim, param, io, pool>>

InitDrv == sim = SimIdle /\ io = None /\ pool = None /\ param = None /\ \E c \in DrvConfigs : InitWith(c)

NextDrv ==
    \/ Reset
    \/ DrvIterate

SpecDrv == InitDrv /\ [][NextDrv]_vars

(* ------------------ tree_node.py: calls on the nodes ------------------- *)
\* a call on a node that ends in m; step_log keeps the call and its exception
TreeCall(m, call) ==
    /\ Call(m)
    /\ step_log' = [NoStep EXCEPT !.raised = m.raised, !.log = call]
    /\ UNCHANGED calls

AddChild == \E p \in Created, c \in Created : TreeCall(add_child(M, p, c), <<"add_child", p, c>>)

RemoveChild ==
    \E p \in Created, c \in Created : TreeCall(remove_child(M, p, c), <<"remove_child", p, c>>)

UpdateParent ==
    \E n \in Created, p \in Created \cup {0} :
        TreeCall(update_parent(M, n, p), <<"update_parent", n, p>>)

\* a node is created, detached
NewNode == Api(get_new_node(M, init_state))

NextTree ==
    \/ NewNode
    \/ AddChild
    \/ RemoveChild
    \/ UpdateParent

SpecTree == Init /\ [][NextTree]_vars

(* -------------------- skyline/core/parameter.py ------------------------ *)
RECURSIVE gcd(_, _)
gcd(a, b) == IF b = 0 THEN a ELSE gcd(b, a % b)

\* a Python number: the rational n/d in lowest terms with d > 0 (an int and the
\* float of the same value compare equal)
Frac(n, d) ==
    LET g == gcd(IF n < 0 THEN -n ELSE n, IF d < 0 THEN -d ELSE d)
        s == IF d < 0 THEN -1 ELSE 1
    IN  <<(s * n) \div g, (s * d) \div g>>

Q(n) == <<n, 1>>

\* SkylineParameter.__init__: the lists are stored as they are given, after the
\* test of their lengths
SkylineParameter(value, change_times) ==
    IF Len(value) # Len(change_times) + 1
    THEN [value |-> <<>>, change_times |-> <<>>, raised |-> "ValueError"]
    ELSE [value |-> value, change_times |-> change_times, raised |-> ""]

\* a call of SkylineParameter.get_value_at_time: what it returns, no exception
\* being raised for any time
get_value_at_time_call(self, time) ==
    [raised |-> "", ret |-> get_value_at_time(self, time)]

\* SkylineParameter.__eq__ on an object of the given type
eq(self, kind, other) ==
    /\ kind = "parameter"
    /\ self.value = other.value
    /\ self.change_times = other.change_times

\* the lambdas of the operators, on two numbers: the result or the exception
func_numbers(func, x, y) ==
    CASE func \in {"add", "radd"} -> [raised |-> "", v |-> Frac(x[1] * y[2] + y[1] * x[2], x[2] * y[2])]
      [] func = "sub" -> [raised |-> "", v |-> Frac(x[1] * y[2] - y[1] * x[2], x[2] * y[2])]
      [] func = "rsub" -> [raised |-> "", v |-> Frac(y[1] * x[2] - x[1] * y[2], x[2] * y[2])]
      [] func \in {"mul", "rmul"} -> [raised |-> "", v |-> Frac(x[1] * y[1], x[2] * y[2])]
      [] func = "truediv" ->
           IF y[1] = 0 THEN [raised |-> "ZeroDivisionError", v |-> Q(0)]
           ELSE [raised |-> "", v |-> Frac(x[1] * y[2], x[2] * y[1])]
      [] func = "rtruediv" ->
           IF x[1] = 0 THEN [raised |-> "ZeroDivisionError", v |-> Q(0)]
           ELSE [raised |-> "", v |-> Frac(y[1] * x[2], y[2] * x[1])]

RECURSIVE repeat(_, _)
\* n * lst for an int n and a list lst
repeat(n, lst) == IF n <= 0 THEN <<>> ELSE lst \o repeat(n - 1, lst)

\* the lambdas of the operators, on a number x (an int) and a list y
func_list(func, x, y) ==
    IF func \in {"mul", "rmul"} THEN [raised |-> "", v |-> repeat(x[1], y)]
    ELSE [raised |-> "TypeError", v |-> <<>>]

\* sorted(set(times))
sorted_set(times) ==
    CHOOSE q \in [1..Cardinality(times) -> times] :
        \A i, j \in 1..Cardinality(times) : i < j => q[i] < q[j]

\* other.change_times and other.get_value_at_time(t) of an operand that is a
\* SkylineParameter, a SkylineVector or a SkylineMatrix
operand_change_times(o) ==
    IF "params" \notin DOMAIN o THEN o.change_times
    ELSE IF "N" \notin DOMAIN o
    THEN sorted_set(UNION {Range(o.params[i].change_times) : i \in 1..Len(o.params)})
    ELSE sorted_set(UNION {Range(o.params[i][j].change_times) :
                             i \in 1..Len(o.params), j \in 1..(o.N - 1)})

operand_value_at_time(o, t) ==
    IF "params" \notin DOMAIN o THEN get_value_at_time(o, t)
    ELSE IF "N" \notin DOMAIN o
    THEN [i \in 1..Len(o.params) |-> get_value_at_time(o.params[i], t)]
    ELSE [i \in 1..Len(o.params) |->
            [j \in 1..Len(o.params[i]) |-> get_value_at_time(o.params[i][j], t)]]

\* the version of operate that keeps the change times of both operands as
\* they come
operate_KeepsDuplicates(self, o, func) ==
    LET change_times == self.change_times \o operand_change_times(o)
        ts == <<0>> \o change_times
        r == [k \in 1..Len(ts) |->
                func_numbers(func, get_value_at_time(self, ts[k]),
                             operand_value_at_time(o, ts[k]))]
    IN  IF \E k \in 1..Len(ts) : r[k].raised # ""
        THEN [value |-> <<>>, change_times |-> <<>>,
              raised |-> r[CHOOSE k \in 1..Len(ts) : r[k].raised # ""
                                  /\ \A h \in 1..(k - 1) : r[h].raised = ""].raised]
        ELSE SkylineParameter([k \in 1..Len(ts) |-> r[k].v], change_times)

\* SkylineParameter.operate on an operand o that is not a number (a number is
\* made a SkylineParameter first, lines 45-46): what is not a number is taken
\* for a SkylineParameter, and a SkylineVector or SkylineMatrix has
\* change_times and get_value_at_time too
operate(self, o, func) ==
    LET change_times == sorted_set(Range(self.change_times)
                                     \cup Range(operand_change_times(o)))
        ts == <<0>> \o change_times
        r == [k \in 1..Len(ts) |->
                LET x == get_value_at_time(self, ts[k])
                    y == operand_value_at_time(o, ts[k])
                IN  IF "params" \in DOMAIN o THEN func_list(func, x, y)
                    ELSE func_numbers(func, x, y)]
    IN  IF \E k \in 1..Len(ts) : r[k].raised # ""
        THEN [value |-> <<>>, change_times |-> <<>>,
              raised |-> r[CHOOSE k \in 1..Len(ts) : r[k].raised # ""
                                  /\ \A h \in 1..(k - 1) : r[h].raised = ""].raised]
        ELSE SkylineParameter([k \in 1..Len(ts) |-> r[k].v], change_times)

\* SkylineParameter(value, change_times) called from outside
Construct ==
    /\ \E n \in 1..3 :
       \E value \in [1..n -> {Q(3), Q(5)}] :
       \E change_times \in [1..(n - 1) -> 0..2] \cup {<<1>>} :
          param' = SkylineParameter(value, change_times)
    /\ calls' = 0
    /\ UNCHANGED <<model_state, step_log, sim, io, pool>>

\* self op other and other op self on the object built last
Operate ==
    /\ param.raised = ""
    /\ calls < MaxCalls
    /\ \E func \in {"add", "sub", "mul", "truediv"} :
          \/ \E other \in {Q(3), Q(0)}, side \in {"", "r"} :
                param' = operate(param, SkylineParameter(<<other>>, <<>>), side \o func)
          \/ \E other \in {SkylineParameter(<<Q(3), Q(5)>>, <<1>>),
                           SkylineParameter(<<Q(5), Q(3)>>, <<2>>)} :
                param' = operate(param, other, func)
    /\ calls' = calls + 1
    /\ UNCHANGED <<model_state, step_log, sim, io, pool>>

InitSky == InitWith(ConfigApi) /\ sim = SimIdle /\ io = None /\ pool = None /\ param = SkylineParameter(<<Q(3)>>, <<>>)

NextSky ==
    \/ Construct
    \/ Operate

SpecSky == InitSky /\ [][NextSky]_vars

(* ------------- skyline/core/vector.py, skyline/core/matrix.py ---------- *)
\* the exception of the first element of a list of results that raised, or ""
first_raised(rs) ==
    IF \A k \in 1..Len(rs) : rs[k].raised = "" THEN ""
    ELSE rs[CHOOSE k \in 1..Len(rs) : rs[k].raised # ""
                        /\ \A h \in 1..(k - 1) : rs[h].raised = ""].raised

\* SkylineVector.__init__ on a list of SkylineParameter objects
SkylineVector(params) == [params |-> params, raised |-> ""]

\* SkylineMatrix.__init__ on lists of SkylineParameter objects
SkylineMatrix(params) ==
    IF \A i \in 1..Len(params) : Len(params[i]) = Len(params) - 1
    THEN [params |-> params, N |-> Len(params), raised |-> ""]
    ELSE [params |-> <<>>, N |-> Len(params), raised |-> "ValueError"]

\* the operator a reflected lambda applies with its arguments exchanged
unreflected(func) ==
    CASE func = "radd" -> "add"
      [] func = "rsub" -> "sub"
      [] func = "rmul" -> "mul"
      [] func = "rtruediv" -> "truediv"
      [] OTHER -> func

RECURSIVE py_binop(_, _, _, _, _)
RECURSIVE vector_operate(_, _, _, _)
RECURSIVE matrix_operate(_, _, _, _)

\* the expression l op r for op one of add, sub, mul, truediv, l and r being a
\* number, a SkylineParameter, a SkylineVector or a SkylineMatrix and at least
\* one of them not a number: type(l).__op__(l, r), or type(r).__rop__(r, l) for
\* a number l
py_binop(lk, l, rk, r, op) ==
    CASE lk = "number" /\ rk = "parameter" ->
           operate(r, SkylineParameter(<<l>>, <<>>), "r" \o op)
      [] lk = "number" /\ rk = "vector" -> vector_operate(r, lk, l, "r" \o op)
      [] lk = "number" /\ rk = "matrix" -> matrix_operate(r, lk, l, "r" \o op)
      [] lk = "parameter" /\ rk = "number" ->
           operate(l, SkylineParameter(<<r>>, <<>>), op)
      [] lk = "parameter" /\ rk # "number" -> operate(l, r, op)
      [] lk = "vector" -> vector_operate(l, rk, r, op)
      [] lk = "matrix" -> matrix_operate(l, rk, r, op)

\* SkylineVector._operate, func being the lambda of the operator: func(p, y)
\* is p op y, or y op p for a reflected operator
vector_operate(self, ok, other, func) ==
    IF ok = "vector" /\ Len(self.params) # Len(other.params)
    THEN [params |-> <<>>, raised |-> "ValueError"]
    ELSE
      LET y(i) == IF ok = "vector" THEN other.params[i] ELSE other
          yk == IF ok = "vector" THEN "parameter" ELSE ok
          params == [i \in 1..Len(self.params) |->
                       IF func = unreflected(func)
                       THEN py_binop("parameter", self.params[i], yk, y(i), func)
                       ELSE py_binop(yk, y(i), "parameter", self.params[i], unreflected(func))]
      IN  IF first_raised(params) # ""
          THEN [params |-> <<>>, raised |-> first_raised(params)]
          ELSE SkylineVector(params)

\* SkylineMatrix._operate
matrix_operate(self, ok, other, func) ==
    IF ok = "matrix" /\ self.N # other.N
    THEN [params |-> <<>>, N |-> self.N, raised |-> "ValueError"]
    ELSE IF ok = "vector" /\ Len(other.params) \notin {self.N, self.N - 1}
    THEN [params |-> <<>>, N |-> self.N, raised |-> "ValueError"]
    ELSE
      LET y(i, j) == CASE ok = "matrix" -> other.params[i][j]
                       [] ok = "vector" /\ Len(other.params) = self.N -> other.params[i]
                       [] ok = "vector" /\ Len(other.params) = self.N - 1 -> other.params[j]
                       [] OTHER -> other
          yk == IF ok \in {"matrix", "vector"} THEN "parameter" ELSE ok
          cell(i, j) == IF func = unreflected(func)
                        THEN py_binop("parameter", self.params[i][j], yk, y(i, j), func)
                        ELSE py_binop(yk, y(i, j), "parameter", self.params[i][j],
                                      unreflected(func))
          params == [i \in 1..Len(self.params) |->
                       [j \in 1..Len(self.params[i]) |-> cell(i, j)]]
          raised == first_raised([i \in 1..Len(params) |->
                                    [raised |-> first_raised(params[i])]])
      IN  IF raised # ""
          THEN [params |-> <<>>, N |-> self.N, raised |-> raised]
          ELSE SkylineMatrix(params)

\* an operand of an expression, with its type
Operand(kind, obj) == [kind |-> kind, obj |-> obj]

\* the numbers, parameters, vectors and matrices that expressions are made of
Operands ==
    LET sp == SkylineParameter(<<Q(5), Q(2)>>, <<2>>)
        p1 == SkylineParameter(<<Q(3), Q(4)>>, <<1>>)
        p2 == SkylineParameter(<<Q(4), Q(0)>>, <<1>>)
        c(n) == SkylineParameter(<<Q(n)>>, <<>>)
    IN  {Operand("number", Q(10)), Operand("number", Q(0)),
         Operand("parameter", sp), Operand("parameter", p1),
         Operand("vector", SkylineVector(<<p1, p2>>)),
         Operand("vector", SkylineVector(<<c(1), c(2), sp>>)),
         Operand("vector", SkylineVector(<<c(2)>>)),
         Operand("vector", SkylineVector(<<>>)),
         Operand("matrix", SkylineMatrix(<<<<c(1), p1>>, <<c(2), c(3)>>, <<sp, c(4)>>>>)),
         Operand("matrix", SkylineMatrix(<<<<p2>>, <<c(3)>>>>))}

Operators == {"add", "sub", "mul", "truediv"}

\* the expression left op right is evaluated
Evaluate ==
    /\ param.op = ""
    /\ \E op \in Operators :
         param' = [param EXCEPT
                     !.op = op,
                     !.result = py_binop(param.left.kind, param.left.obj,
                                         param.right.kind, param.right.obj, op)]
    /\ UNCHANGED <<model_state, calls, step_log, sim, io, pool>>

InitAlgebra ==
    /\ InitWith(ConfigApi)
    /\ sim = SimIdle /\ io = None /\ pool = None
    /\ \E left \in Operands, right \in Operands :
         /\ left.kind # "number" \/ right.kind # "number"
         /\ param = [left |-> left, right |-> right, op |-> "", result |-> None]

NextAlgebra == Evaluate

SpecAlgebra == InitAlgebra /\ [][NextAlgebra]_vars

(* ---------------------------- io/newick.py ----------------------------- *)
(* A Python str is the sequence of its characters.  A number is a point of *)
(* the grid of tenths, with its type: the int 2 is [float |-> FALSE,       *)
(* tenths |-> 20] and the float 0.5 is [float |-> TRUE, tenths |-> 5].  A  *)
(* metadata value is a str, a number or a bool, as the record of its type   *)
(* and of the value in the field of that type.  A node of a tree is a      *)
(* record of its name, its optional branch length, its metadata as the     *)
(* list of its <<key, value>> items, and its children.                     *)

\* the metadata values: the fields of the other types hold a filler
Str(s) ==
    [kind |-> "str", str |-> s, number |-> [float |-> FALSE, tenths |-> 0], bool |-> FALSE]
Number(x) == [kind |-> "number", str |-> <<>>, number |-> x, bool |-> FALSE]
Bool(b) ==
    [kind |-> "bool", str |-> <<>>, number |-> [float |-> FALSE, tenths |-> 0], bool |-> b]

\* the longest string among the metadata values
MaxStrLen == 2

Digit(n) == <<"0", "1", "2", "3", "4", "5", "6", "7", "8", "9">>[n + 1]

\* str(n) of an int n >= 0
RECURSIVE digits(_)
digits(n) == IF n < 10 THEN <<Digit(n)>> ELSE digits(n \div 10) \o <<Digit(n % 10)>>

\* str(x) of a number: f"{node.branch_length}" and repr of a number
format_number(x) ==
    IF x.float
    THEN digits(x.tenths \div 10) \o <<".", Digit(x.tenths % 10)>>
    ELSE digits(x.tenths \div 10)

\* str.replace(old, new) for one-character old
replace(s, old, new) == [k \in 1..Len(s) |-> IF s[k] = old THEN new ELSE s[k]]

\* sep.join(strs)
RECURSIVE join(_, _)
join(sep, strs) ==
    IF strs = <<>> THEN <<>>
    ELSE IF Len(strs) = 1 THEN strs[1]
    ELSE strs[1] \o sep \o join(sep, Tail(strs))

\* repr of a str: double quotes when the string holds a single quote and no
\* double quote, single quotes otherwise; the quote in use and the backslash
\* are escaped
repr_str(s) ==
    LET q == IF "'" \in Range(s) /\ "\"" \notin Range(s) THEN "\"" ELSE "'"
        escaped == Concat([k \in 1..Len(s) |->
                             IF s[k] = q \/ s[k] = "\\" THEN <<"\\", s[k]>>
                             ELSE <<s[k]>>])
    IN  <<q>> \o escaped \o <<q>>

\* repr(v) of a metadata value
repr(value) ==
    CASE value.kind = "str" -> repr_str(value.str)
      [] value.kind = "number" -> format_number(value.number)
      [] value.kind = "bool" -> IF value.bool THEN <<"T", "r", "u", "e">>
                                ELSE <<"F", "a", "l", "s", "e">>

\* to_newick(node): the text of the subtree of node, without the semicolon
RECURSIVE to_newick(_)
to_newick(node) ==
    LET kids == [k \in 1..Len(node.children) |-> to_newick(node.children[k])]
        children_newick == join(<<",">>, [k \in 1..Len(kids) |-> kids[k].ret])
        reprs == [k \in 1..Len(node.metadata) |->
                    replace(repr(node.metadata[k][2]), "'", "\"")]
        invalid == \E k \in 1..Len(reprs) :
                      \/ Range(node.metadata[k][1]) \cap {",", "=", "]"} # {}
                      \/ Range(reprs[k]) \cap {"=", "]"} # {}
        features == [k \in 1..Len(reprs) |-> node.metadata[k][1] \o <<"=">> \o reprs[k]]
        named == IF node.metadata # <<>>
                 THEN node.name \o <<"[", "&">> \o join(<<",">>, features) \o <<"]">>
                 ELSE node.name
        nested == IF children_newick # <<>>
                  THEN <<"(">> \o children_newick \o <<")">> \o named
                  ELSE named
    IN  IF first_raised(kids) # "" THEN [raised |-> first_raised(kids), ret |-> <<>>]
        ELSE IF invalid THEN [raised |-> "ValueError", ret |-> <<>>]
        ELSE [raised |-> "",
              ret |-> IF node.branch_length # None
                      THEN nested \o <<":">> \o format_number(node.branch_length[1])
                      ELSE nested]

\* str.strip(): the whitespace at both ends is dropped
Whitespace == {" ", "\n", "\t"}

RECURSIVE strip(_)
strip(s) ==
    IF s = <<>> THEN s
    ELSE IF s[1] \in Whitespace THEN strip(Tail(s))
    ELSE IF s[Len(s)] \in Whitespace THEN strip(SubSeq(s, 1, Len(s) - 1))
    ELSE s

\* re.sub(r"^\[\&[^\]]*\]", "", s): a leading [&...] annotation is dropped
drop_root_annotation(s) ==
    IF Len(s) >= 3 /\ s[1] = "[" /\ s[2] = "&" /\ \E j \in 3..Len(s) : s[j] = "]"
    THEN SubSeq(s, Min({j \in 3..Len(s) : s[j] = "]"}) + 1, Len(s))
    ELSE s

\* the pieces of s between the positions of cuts
RECURSIVE split_at(_, _)
split_at(s, cuts) ==
    IF cuts = {} THEN <<s>>
    ELSE LET p == Max(cuts)
         IN  Append(split_at(SubSeq(s, 1, p - 1), cuts \ {p}), SubSeq(s, p + 1, Len(s)))

\* re.split(r",(?=[^,]+=)", s): s is cut at every comma that some "=" follows
\* after one character or more and with no comma in between
split_features(s) ==
    split_at(s, {p \in 1..Len(s) :
                   /\ s[p] = ","
                   /\ \E q \in (p + 2)..Len(s) :
                        s[q] = "=" /\ \A r \in (p + 1)..(q - 1) : s[r] # ","})

\* str.split(sep) for one-character sep
split(s, sep) == split_at(s, {p \in 1..Len(s) : s[p] = sep})

IsDigits(s) == s # <<>> /\ \A k \in 1..Len(s) : \E d \in 0..9 : s[k] = Digit(d)

\* int(s) of a string of digits
RECURSIVE int(_)
int(s) ==
    IF s = <<>> THEN 0
    ELSE 10 * int(SubSeq(s, 1, Len(s) - 1))
         + (CHOOSE d \in 0..9 : s[Len(s)] = Digit(d))

\* the number a decimal literal denotes: digits, or digits "." digit
IsNumberLiteral(s) ==
    \/ IsDigits(s)
    \/ Len(s) >= 3 /\ s[Len(s) - 1] = "." /\ IsDigits(SubSeq(s, 1, Len(s) - 2))
                   /\ IsDigits(<<s[Len(s)]>>)

number_literal(s) ==
    IF IsDigits(s) THEN [float |-> FALSE, tenths |-> 10 * int(s)]
    ELSE [float |-> TRUE,
          tenths |-> 10 * int(SubSeq(s, 1, Len(s) - 2)) + int(<<s[Len(s)]>>)]

\* float(s): any number literal gives a float, anything else is a ValueError
float(s) ==
    IF IsNumberLiteral(s)
    THEN [raised |-> "", ret |-> [float |-> TRUE, tenths |-> number_literal(s).tenths]]
    ELSE [raised |-> "ValueError", ret |-> None]

\* the inside of a string literal opened at an earlier position by the quote
\* q, or by three of them, read from position i on: a backslash takes the
\* next character with it, a newline ends a one-quote literal in error, and
\* the literal runs to the next occurrence of what opened it; acc is the text
\* of the literals read so far
RECURSIVE string_literals(_, _, _)
RECURSIVE string_literal(_, _, _, _, _)
string_literal(s, i, q, triple, acc) ==
    LET Quote(k) == k <= Len(s) /\ s[k] = q
        escapes == [c \in {"\\", "'", "\"", "n", "t"} |->
                      CASE c = "n" -> <<"\n">> [] c = "t" -> <<"\t">> [] OTHER -> <<c>>]
    IN  IF i > Len(s) THEN [raised |-> "SyntaxError", ret |-> None]
        ELSE IF s[i] = "\\"
        THEN IF i + 1 > Len(s) THEN [raised |-> "SyntaxError", ret |-> None]
             ELSE string_literal(s, i + 2, q, triple,
                                 acc \o (IF s[i + 1] \in DOMAIN escapes
                                         THEN escapes[s[i + 1]]
                                         ELSE <<"\\", s[i + 1]>>))
        ELSE IF triple /\ Quote(i) /\ Quote(i + 1) /\ Quote(i + 2)
        THEN string_literals(s, i + 3, Some(acc))
        ELSE IF ~triple /\ Quote(i) THEN string_literals(s, i + 1, Some(acc))
        ELSE IF ~triple /\ s[i] = "\n" THEN [raised |-> "SyntaxError", ret |-> None]
        ELSE string_literal(s, i + 1, q, triple, acc \o <<s[i]>>)

\* a Python expression made of string literals side by side, read from
\* position i on; acc is the text of the literals read so far, if any.  The
\* prefixes of string literals (r, b, u, f) are not modelled.
string_literals(s, i, acc) ==
    LET Quote(k, q) == k <= Len(s) /\ s[k] = q
        text == IF acc = None THEN <<>> ELSE acc[1]
    IN  IF i > Len(s)
        THEN IF acc = None THEN [raised |-> "SyntaxError", ret |-> None]
             ELSE [raised |-> "", ret |-> Str(text)]
        ELSE IF s[i] \in {" ", "\t"} THEN string_literals(s, i + 1, acc)
        ELSE IF s[i] \notin {"\"", "'"} THEN [raised |-> "SyntaxError", ret |-> None]
        ELSE IF Quote(i + 1, s[i]) /\ Quote(i + 2, s[i])
        THEN string_literal(s, i + 3, s[i], TRUE, text)
        ELSE string_literal(s, i + 1, s[i], FALSE, text)

\* eval(s) of the text of a metadata value: True, False, a number literal
\* (an int literal starts with no 0 unless it is all 0) or string literals;
\* any other text raises
eval(s) ==
    IF s = <<"T", "r", "u", "e">> THEN [raised |-> "", ret |-> Bool(TRUE)]
    ELSE IF s = <<"F", "a", "l", "s", "e">>
    THEN [raised |-> "", ret |-> Bool(FALSE)]
    ELSE IF IsNumberLiteral(s)
    THEN IF IsDigits(s) /\ s[1] = "0" /\ \E k \in 1..Len(s) : s[k] # "0"
         THEN [raised |-> "SyntaxError", ret |-> None]
         ELSE [raised |-> "", ret |-> Number(number_literal(s))]
    ELSE string_literals(s, 1, None)

\* MetadataMixin.set(key, value) on the items of a node
set(items, key, value) ==
    IF \E k \in 1..Len(items) : items[k][1] = key
    THEN [k \in 1..Len(items) |-> IF items[k][1] = key THEN <<key, value>> ELSE items[k]]
    ELSE Append(items, <<key, value>>)

\* e is evaluated once, and F is applied to its value
Bound(e, F(_)) == CHOOSE r \in {F(x) : x \in {e}} : TRUE

\* _read_chars(stoppers) at position i: the characters up to the first
\* stopper, and the position of that stopper
read_chars(newick, i, stoppers) ==
    IF \E j \in i..Len(newick) : newick[j] \in stoppers
    THEN LET j == CHOOSE k \in i..Len(newick) :
                     newick[k] \in stoppers /\ \A h \in i..(k - 1) : newick[h] \notin stoppers
         IN  [raised |-> "", chars |-> SubSeq(newick, i, j - 1), i |-> j]
    ELSE [raised |-> "ValueError", chars |-> <<>>, i |-> Len(newick) + 1]

\* the loop over the features of a node: each is split at "=" into a key and
\* the text of a value, which is evaluated, or kept as text when it cannot be
RECURSIVE read_features(_, _)
read_features(features, items) ==
    IF features = <<>> THEN [raised |-> "", items |-> items]
    ELSE LET parts == split(features[1], "=")
         IN  IF Len(parts) # 2 THEN [raised |-> "ValueError", items |-> items]
             ELSE LET value == eval(parts[2])
                  IN  read_features(Tail(features),
                                    set(items, parts[1],
                                        IF value.raised = "" THEN value.ret
                                        ELSE Str(parts[2])))

TreeNode(name_, branch_length_, metadata_, children_) ==
    [name |-> name_, branch_length |-> branch_length_, metadata |-> metadata_,
     children |-> children_]

\* the metadata block of a node whose name ends before position i: the items
\* read, none without a block, and the position after the block
node_features(newick, i) ==
    IF newick[i] # "[" THEN [raised |-> "", items |-> <<>>, i |-> i]
    ELSE IF i + 1 > Len(newick) THEN [raised |-> "IndexError"]
    ELSE IF newick[i + 1] # "&" THEN [raised |-> "ValueError"]
    ELSE Bound(read_chars(newick, i + 2, {"]"}), LAMBDA text :
           IF text.raised # "" THEN [raised |-> text.raised]
           ELSE Bound(read_features(split_features(text.chars), <<>>), LAMBDA read :
                  [raised |-> read.raised, items |-> read.items, i |-> text.i + 1]))

\* the branch length of a node whose name and metadata end before position
\* i: the length read, none without a colon, and the position of the stopper
node_branch_length(newick, i) ==
    IF i > Len(newick) THEN [raised |-> "IndexError"]
    ELSE IF newick[i] # ":" THEN [raised |-> "", branch_length |-> None, i |-> i]
    ELSE Bound(read_chars(newick, i + 1, {",", ")", ";"}), LAMBDA text :
           IF text.raised # "" THEN [raised |-> text.raised]
           ELSE Bound(float(text.chars), LAMBDA x :
                  [raised |-> x.raised, branch_length |-> Some(x.ret), i |-> text.i]))

\* `while True` of parse_newick: the iterations from the one that starts with
\* the given values of the locals (positions count from 1), each on the
\* values that the one before left
RECURSIVE parse_loop(_)

\* one iteration of the loop, and the iterations after it
parse_iteration(locals) ==
    LET newick == locals.newick
        stack == locals.stack
        Raises(e) == [raised |-> e, ret |-> None]
    IN  IF locals.i > Len(newick) THEN Raises("IndexError")
        ELSE IF newick[locals.i] = "("
        THEN parse_loop([locals EXCEPT !.i = locals.i + 1,
                                       !.stack = Append(stack, locals.current_nodes),
                                       !.current_nodes = <<>>])
        ELSE
        Bound(read_chars(newick, locals.i, {":", "[", ",", ")", ";"}), LAMBDA named :
        IF named.raised # "" THEN Raises(named.raised)
        ELSE
        Bound(node_features(newick, named.i), LAMBDA features :
        IF features.raised # "" THEN Raises(features.raised)
        ELSE
        Bound(node_branch_length(newick, features.i), LAMBDA length :
        IF length.raised # "" THEN Raises(length.raised)
        ELSE
        Bound(TreeNode(named.chars, length.branch_length, features.items,
                       locals.current_children), LAMBDA current_node :
        IF newick[length.i] = ")"
        THEN IF stack = <<>> THEN Raises("IndexError")
             ELSE parse_loop([locals EXCEPT
                                !.i = length.i + 1,
                                !.stack = SubSeq(stack, 1, Len(stack) - 1),
                                !.current_children = Append(locals.current_nodes, current_node),
                                !.current_nodes = stack[Len(stack)]])
        ELSE IF newick[length.i] = ";"
        THEN [raised |-> "", ret |-> current_node]
        ELSE parse_loop([locals EXCEPT
                           !.i = length.i + 1,
                           !.current_children = <<>>,
                           !.current_nodes = Append(locals.current_nodes, current_node)])))))

parse_loop(locals) == Bound(locals, parse_iteration)

\* parse_newick(newick) with no translations
parse_newick(newick) ==
    parse_loop([newick |-> strip(drop_root_annotation(strip(newick))), i |-> 1,
                stack |-> <<>>, current_children |-> <<>>, current_nodes |-> <<>>])

\* the strings over alphabet of length n at most
RECURSIVE Strings(_, _)
Strings(alphabet, n) ==
    IF n = 0 THEN {<<>>}
    ELSE LET shorter == Strings(alphabet, n - 1)
         IN  shorter \cup {Append(s, c) : s \in shorter, c \in alphabet}

\* the metadata values of the trees written: strings with letters, commas and
\* apostrophes, an int, a float, and the booleans
Values ==
    {Str(s) : s \in Strings({"a", ",", "'"}, MaxStrLen)}
        \cup {Number([float |-> FALSE, tenths |-> 30]), Number([float |-> TRUE, tenths |-> 5]),
              Bool(TRUE), Bool(FALSE)}

\* the metadata of the nodes written: none, one item, or two; the key "k=" is
\* one that to_newick rejects
Metadatas ==
    {<<>>}
        \cup {<< <<key, value>> >> : key \in {<<"k">>, <<"s", "t">>, <<"k", "=">>},
                                    value \in Values}
        \cup {<< <<<<"k">>, value>>, <<<<"s", "t">>, other>> >> :
                 value \in Values, other \in {Bool(TRUE), Str(<<"a", ",">>)}}

\* the branch lengths of the nodes written: none, the floats 0.5 and 1.0, the int 2
BranchLengths ==
    {None, Some([float |-> TRUE, tenths |-> 5]), Some([float |-> TRUE, tenths |-> 10]),
     Some([float |-> FALSE, tenths |-> 20])}

\* the names of the nodes written: a simulator name, no name, and a name
\* with a comma
Names == {<<"1", "|", "I">>, <<>>, <<"a", ",", "b">>}

\* the nodes that are children in the trees written
Subtrees ==
    LET leaves == {TreeNode(n, b, m, <<>>) :
                     n \in {<<"1", "|", "I">>, <<>>},
                     b \in {None, Some([float |-> TRUE, tenths |-> 5])},
                     m \in {<<>>, << <<<<"k">>, Bool(TRUE)>> >>,
                            << <<<<"k">>, Str(<<"'">>)>> >>}}
    IN  leaves \cup {TreeNode(<<"2", "|", "I">>, None, <<>>, <<c>>) : c \in leaves}

\* the trees written: one node, or a root over one or two of the subtrees
Trees ==
    {TreeNode(n, b, m, <<>>) : n \in Names, b \in BranchLengths, m \in Metadatas}
        \cup {TreeNode(n, None, m, <<c>>) :
                 n \in {<<"R">>, <<>>}, m \in {<<>>, << <<<<"k">>, Number([float |-> FALSE, tenths |-> 30])>> >>},
                 c \in Subtrees}
        \cup {TreeNode(<<"R">>, None, <<>>, <<c, d>>) : c \in Subtrees, d \in Subtrees}

\* dump_newick(tree, filepath): the line written, unless to_newick raises
Dump ==
    /\ io.pc = "tree"
    /\ LET text == to_newick(io.tree)
       IN  io' = [io EXCEPT !.pc = IF text.raised = "" THEN "dumped" ELSE "raised",
                            !.raised = text.raised,
                            !.line = text.ret \o <<";", "\n">>]
    /\ UNCHANGED <<model_state, calls, step_log, sim, param, pool>>

\* load_newick(filepath) of the file written: its one line is parsed
Load ==
    /\ io.pc = "dumped"
    /\ LET loaded == parse_newick(io.line)
       IN  io' = [io EXCEPT !.pc = "loaded", !.raised = loaded.raised,
                            !.parsed = loaded.ret]
    /\ UNCHANGED <<model_state, calls, step_log, sim, param, pool>>

\* parse_newick(to_newick(tree)): the text is parsed as to_newick returns it
Parse ==
    /\ io.pc = "tree"
    /\ LET text == to_newick(io.tree)
           parsed == parse_newick(text.ret)
       IN  /\ text.raised = ""
           /\ io' = [io EXCEPT !.pc = "parsed", !.line = text.ret,
                               !.raised = parsed.raised, !.parsed = parsed.ret]
    /\ UNCHANGED <<model_state, calls, step_log, sim, param, pool>>

InitNewick ==
    /\ InitWith(ConfigApi)
    /\ sim = SimIdle
    /\ param = None
    /\ pool = None
    /\ \E t \in Trees :
         io = [pc |-> "tree", tree |-> t, line |-> <<>>, raised |-> "", parsed |-> None]

NextNewick == Dump \/ Load \/ Parse

SpecNewick == InitNewick /\ [][NextNewick]_vars

(* ------- generators/dataset.py, gillespie.py: the parallel jobs -------- *)
(* A random generator (random.Random, numpy's Generator) is its state.  A  *)
(* small generator stands for the real ones: seeding gives a state that is *)
(* a function of the seed, and a draw gives a value that is a function of  *)
(* the state and moves the state.  joblib.Parallel takes the items of its  *)
(* generator in order on the caller's side; with n_jobs = 1 it runs each   *)
(* job in the caller's process before it takes the next item, and with     *)
(* more it runs the jobs in worker processes, each on its own copy of the  *)
(* objects of the call.                                                    *)

\* the samples of a call
MaxSamples == 3

RandomStates == 0..10

\* Random(seed), Random.seed(seed), default_rng(seed): the state after seeding
seeded(seed) == (5 * seed + 2) % Cardinality(RandomStates)

\* rng.randint(0, 2**32), rng.integers(2**32): the state after the draw, which
\* is the value drawn too
drawn(state) == (2 * state + 1) % Cardinality(RandomStates)

\* a job as the generator yields it: the seed it is handed, the seed it runs
\* with, the generator of its process and the attempts that timed out
Job(seed, rng) ==
    [pc |-> "queued", handed |-> seed, seed |-> seed, rng |-> rng, attempts |-> 0]

\* the generator expression yields the next job: the seed of the job is drawn
\* from the generator of the caller
Dispatch ==
    /\ Len(pool.jobs) < pool.n_samples
    /\ pool.n_jobs = 1 => \A k \in 1..Len(pool.jobs) : pool.jobs[k].pc = "done"
    /\ pool' = [pool EXCEPT !.rng = drawn(pool.rng),
                            !.jobs = Append(@, Job(drawn(pool.rng), drawn(pool.rng)))]
    /\ UNCHANGED <<model_state, calls, step_log, sim, param, io>>

\* the generator that self._rng is in the process of job i: the caller's own
\* with n_jobs = 1, the copy in the worker otherwise
job_rng(p, i) == IF p.n_jobs = 1 THEN p.rng ELSE p.jobs[i].rng

\* the pool after self._rng of job i took the state rng
set_job_rng(p, i, rng) ==
    IF p.n_jobs = 1 THEN [p EXCEPT !.rng = rng] ELSE [p EXCEPT !.jobs[i].rng = rng]

\* DatasetGenerator._generate_one starts: self._seed(seed)
generate_one_seed(p, i) ==
    [set_job_rng(p, i, seeded(p.jobs[i].seed)) EXCEPT !.jobs[i].pc = "running"]

\* an iteration of the loop of DatasetGenerator._generate_one: the seed of the
\* context and the seed of the tree generator are drawn from self._rng, and
\* the generation returns or times out
generate_one_attempt(p, i, timed_out) ==
    LET q == set_job_rng(p, i, drawn(drawn(job_rng(p, i))))
    IN  IF timed_out THEN [q EXCEPT !.jobs[i].attempts = @ + 1]
        ELSE [q EXCEPT !.jobs[i].pc = "done"]

\* generate_trees._simulate_tree starts: it holds its seed, the generator of
\* generate_trees stays with the caller
simulate_tree_seed(p, i) == [p EXCEPT !.jobs[i].pc = "running"]

\* an iteration of the loop of generate_trees._simulate_tree: simulate_tree
\* seeds a generator of its own with seed, and returns or times out
simulate_tree_attempt(p, i, timed_out) ==
    IF timed_out
    THEN [p EXCEPT !.jobs[i].seed = @ + 1, !.jobs[i].attempts = @ + 1,
                   !.jobs[i].rng = seeded(p.jobs[i].seed)]
    ELSE [p EXCEPT !.jobs[i].pc = "done", !.jobs[i].rng = seeded(p.jobs[i].seed)]

\* a job starts in a free worker
JobStart ==
    \E i \in 1..Len(pool.jobs) :
       /\ pool.jobs[i].pc = "queued"
       /\ Cardinality({k \in 1..Len(pool.jobs) : pool.jobs[k].pc = "running"}) < pool.n_jobs
       /\ pool' = IF pool.entry = "DatasetGenerator" THEN generate_one_seed(pool, i)
                  ELSE simulate_tree_seed(pool, i)
       /\ UNCHANGED <<model_state, calls, step_log, sim, param, io>>

\* a running job makes an attempt
JobAttempt ==
    \E i \in 1..Len(pool.jobs), timed_out \in BOOLEAN :
       /\ pool.jobs[i].pc = "running"
       /\ timed_out => pool.jobs[i].attempts < MaxAttempts
       /\ pool' = IF pool.entry = "DatasetGenerator"
                  THEN generate_one_attempt(pool, i, timed_out)
                  ELSE simulate_tree_attempt(pool, i, timed_out)
       /\ UNCHANGED <<model_state, calls, step_log, sim, param, io>>

\* DatasetGenerator(seed=seed, n_jobs=n_jobs)._generate(n_samples, ...) and
\* generate_trees(n_trees=n_samples, seed=seed, n_jobs=n_jobs) at the call of
\* joblib.Parallel
InitJobs ==
    /\ InitWith(ConfigApi)
    /\ sim = SimIdle /\ io = None
    /\ param = None
    /\ \E entry \in {"DatasetGenerator", "generate_trees"}, n_jobs \in {1, 2},
          seed \in {0, 1, 4} :
         pool = [entry |-> entry, n_jobs |-> n_jobs, n_samples |-> MaxSamples,
                 seed |-> seed, rng |-> seeded(seed), jobs |-> <<>>]

NextJobs ==
    \/ Dispatch
    \/ JobStart
    \/ JobAttempt

SpecJobs == InitJobs /\ [][NextJobs]_vars

(* ---------------- gillespie.py: a call that is given a timeout ---------- *)
\* death and sampling with removal, at constant rates
EventsDeath ==
    << Ev("Death", Const(1), Some("I"), "", FALSE),
       Ev("Sampling", Const(1), Some("I"), "", TRUE) >>

\* the calls with a timeout: n_leaves of 0, of 1 and of 2, and the criterion
\* "at least 2 leaves", which no tree of 1 leaf meets
LiveArgs ==
    {Args(EventsDeath, <<>>, Some(n), None, Some(1), c) :
        n \in {0, 1, 2}, c \in {None, Some(2)}}

\* a step of the call that ends in s; the draws are not recorded, the call
\* not being made a second time, and the attempts are not counted
LiveSet(s) ==
    SimSet([s EXCEPT !.tape = <<>>, !.pos = 1, !.attempts = 0])

LiveCall == sim.pc = "idle" /\ \E s \in {sim_call(sim)} : LiveSet(s)

\* line 43, `while True`: the next attempt, however many were made before
LiveAttempt == sim.pc = "attempt" /\ \E s \in {sim_attempt(sim)} : LiveSet(s)

LiveIterate ==
    /\ sim.pc = "loop"
    /\ \E s \in {sim_iterate(sim, d) : d \in SimDraws(sim)} : LiveSet(s)

LiveFinish == sim.pc = "after" /\ \E s \in {sim_finish(sim)} : LiveSet(s)

InitLive ==
    /\ InitWith(ConfigApi)
    /\ param = None /\ io = None /\ pool = None
    /\ \E args \in LiveArgs : sim = SimStart(args)

NextLive ==
    \/ LiveCall
    \/ LiveAttempt
    \/ LiveIterate
    \/ LiveFinish
    \/ SimTick

\* the statements of the call are executed one after the other, and the wall
\* clock advances
SpecLive ==
    /\ InitLive
    /\ [][NextLive]_vars
    /\ WF_vars(LiveCall)
    /\ WF_vars(LiveAttempt)
    /\ WF_vars(LiveIterate)
    /\ WF_vars(LiveFinish)
    /\ WF_vars(SimTick)

(* ------- parameterizations/core.py: timed events with any fire times ---- *)
\* the longest list of fire times
MaxFireTimes == 2

\* the lists of fire times, in any order and with repetitions
FireTimeLists == UNION {[1..n -> 1..DrvMaxTime] : n \in 0..MaxFireTimes}

\* the configuration of the timed migration with the fire times ts
ConfigFire(ts) ==
    [ConfigDrvTimed EXCEPT !.timed_events = << [@[1] EXCEPT !.times = ts] >>]

InitFire ==
    /\ sim = SimIdle /\ io = None /\ pool = None /\ param = None
    /\ \E ts \in FireTimeLists : InitWith(ConfigFire(ts))

NextFire ==
    \/ Reset
    \/ DrvIterate

SpecFire == InitFire /\ [][NextFire]_vars

(* ------------- parameterizations/sir.py: runs of the SIR model ---------- *)
\* the SIR model of get_SIR_model started with s0 susceptibles
ConfigSIRWith(s0) ==
    [ConfigSIR EXCEPT !.init_metadata = Some([k \in {SUSCEPTIBLES_KEY} |-> s0])]

InitSIR ==
    /\ sim = SimIdle /\ io = None /\ pool = None /\ param = None
    /\ \E s0 \in {0, 1} : InitWith(ConfigSIRWith(s0))

NextSIR ==
    \/ Reset
    \/ StepLogged

SpecSIR == InitSIR /\ [][NextSIR]_vars

(* ------------------------------ properties ---------------------------- *)
\* the buckets of the active index that hold node n
BucketsOf(n) == {i \in 1..Len(active_nodes) : n \in Range(active_nodes[i].nodes)}

\* C1: in every state reached from reset() by get_new_node, fix, stem, remove,
\* migrate, birth_from, sample and step, a node has no branch length if and
\* only if it is in the active bucket of its own state, and it is in no other
\* bucket.
ActiveFixedPartition ==
    \A n \in Created :
        /\ IsNone(branch_length[n]) <=> n \in Range(Bucket(active_nodes, nstate[n]))
        /\ \A i \in BucketsOf(n) : active_nodes[i].key = nstate[n]

\* a state with a fixed node, an active node, and two buckets in the index
ActiveFixedPartitionWitness ==
    /\ Len(active_nodes) = 2
    /\ \E n, k \in Created :
          /\ ~IsNone(branch_length[n])
          /\ IsNone(branch_length[k])
          /\ nstate[n] # nstate[k]
          /\ BucketsOf(k) # {}

\* C2: whenever get_tree() returns a tree, every leaf of it has a name in the
\* sampled names and every internal node, the returned root included, has at
\* least two children.
PrunedTreeSound ==
    LET g == get_tree(M) IN
    g.kind = "tree" =>
        \A n \in Subtree(g.t.children, g.root) :
            IF g.t.children[n] = <<>>
            THEN g.t.name[n] \in sampled_nodes
            ELSE Len(g.t.children[n]) >= 2

\* get_tree() returns a tree with an internal root and two sampled leaves
PrunedTreeSoundWitness ==
    LET g == get_tree(M) IN
    /\ g.kind = "tree"
    /\ Len(g.t.children[g.root]) = 2
    /\ Cardinality(sampled_nodes) = 2

\* C3: for every leaf L of the tree get_tree() returns, the branch lengths on
\* the path from the returned root down to L, the root's own included, sum to
\* the time at which L was fixed.
BranchLengthConservation ==
    LET g == get_tree(M) IN
    g.kind = "tree" =>
        \A L \in Leaves(g.t.children, g.root) :
            /\ ~IsNone(node_times[L])
            /\ PathLength(g.t, g.root, L) = Val(node_times[L])

\* a returned tree with a leaf fixed after time 0 whose branch was lengthened
\* by the contraction of its parent
BranchLengthConservationWitness ==
    LET g == get_tree(M) IN
    /\ g.kind = "tree"
    /\ \E L \in Leaves(g.t.children, g.root) :
          /\ Val(node_times[L]) > 0
          /\ g.t.branch_length[L] # branch_length[L]

\* C11: in every reachable state reset() gives the state reset() gives on the
\* freshly configured model: time 0, the node counter restarted, one active
\* unfixed root in the initial state, no sampled name, no node time, the
\* initial metadata only, the run-time event lists equal to the registered
\* events; and reset() after reset() changes nothing.
ResetRestores ==
    LET r == reset(M)
        fresh == reset(Constructed([init_state |-> init_state,
                                    init_metadata |-> init_metadata,
                                    stochastic_events |-> stochastic_events,
                                    timed_events |-> timed_events]))
    IN  /\ r = fresh
        /\ reset(r) = r
        /\ r.current_time = 0
        /\ r.next_node_id = 1
        /\ r.tree = 1
        /\ r.active_nodes = <<[key |-> init_state, nodes |-> <<1>>]>>
        /\ r.nstate = <<init_state>>
        /\ r.branch_length = <<None>>
        /\ r.parent = <<0>>
        /\ r.children = << <<>> >>
        /\ r.sampled_nodes = {}
        /\ \A n \in DOMAIN r.node_times : IsNone(r.node_times[n])
        /\ r.metadata = (IF IsNone(init_metadata) THEN NoMetadata ELSE Val(init_metadata))
        /\ r.run_stochastic_events = stochastic_events
        /\ r.run_timed_events = timed_events

ResetRestoresWitness ==
    /\ current_time > 0
    /\ sampled_nodes # {}
    /\ metadata # (IF IsNone(init_metadata) THEN NoMetadata ELSE Val(init_metadata))
    /\ Len(run_stochastic_events) > Len(stochastic_events)

\* C12: fix(node) on a node whose branch length is set raises and changes
\* nothing, and between two reset() the branch length and the time of a fixed
\* node never change again.
FixOnce ==
    /\ [](\A n \in Created :
            ~IsNone(branch_length[n]) => fix(M, n) = Raise(M, "RuntimeError"))
    /\ [][(step_log'.stepped \/ calls' # 0) =>
            \A n \in Created :
               ~IsNone(branch_length[n]) =>
                  /\ n <= next_node_id'
                  /\ branch_length'[n] = branch_length[n]
                  /\ node_times'[n] = node_times[n]]_vars

FixOnceWitness ==
    /\ ~step_log.stepped
    /\ step_log.raised = "RuntimeError"
    /\ active_nodes # <<>>
    /\ \E n \in Created : ~IsNone(branch_length[n])

\* the children of n, in the model's tree, that have a sampled node below them
KeptChildren(n) ==
    {c \in Range(children[n]) : \E x \in Subtree(children, c) : name[x] \in sampled_nodes}

RECURSIVE SurvivingRoot(_)
\* the first node, from n down, that does not keep exactly one child
SurvivingRoot(n) ==
    IF Cardinality(KeptChildren(n)) = 1
    THEN SurvivingRoot(CHOOSE c \in KeptChildren(n) : TRUE)
    ELSE n

\* C13 as stated: get_tree() returns nothing exactly when there is no sampled
\* name, and a tree it returns is rooted at the seed node.
SeedRooted ==
    LET g == get_tree(M) IN
    /\ g.kind = "none" <=> sampled_nodes = {}
    /\ g.kind = "tree" => g.root = tree

\* C13, amended: get_tree() returns nothing exactly when there is no sampled
\* name; the tree it returns is rooted at the seed node only when the seed keeps
\* other than one child, and otherwise at the first node below the seed that
\* does, with the branch lengths from the seed down to it summed into its own.
SeedContracted ==
    LET g == get_tree(M) IN
    /\ g.kind = "none" <=> sampled_nodes = {}
    /\ g.kind # "none" => g.kind = "tree"
    /\ g.kind = "tree" =>
          /\ g.root = SurvivingRoot(tree)
          /\ g.t.parent[g.root] = 0
          /\ g.t.branch_length[g.root] = Some(PathLength(M, tree, g.root))

\* a returned tree whose root is not the seed
SeedContractedWitness ==
    LET g == get_tree(M) IN
    /\ g.kind = "tree"
    /\ g.root # tree
    /\ g.t.branch_length[g.root] # branch_length[g.root]

RECURSIVE Shape(_, _)
\* the tree under n as a value: names, branch lengths, metadata and children
Shape(t, n) ==
    [name |-> t.name[n], branch_length |-> t.branch_length[n], state |-> t.nstate[n],
     children |-> [i \in 1..Len(t.children[n]) |-> Shape(t, t.children[n][i])]]

\* C14: get_tree() leaves the model as it was: the nodes of the model (names,
\* branch lengths, metadata, parents, children), the active index, the sampled
\* names, the node times and the time; the tree it returns has no node of the
\* model; and a second call returns an equal tree.
GetTreeLeavesModel ==
    LET g  == get_tree_on_copy(M)
        g2 == get_tree_on_copy([g.t EXCEPT !.raised = ""])
        n  == next_node_id
    IN  /\ SubSeq(g.t.name, 1, n) = name
        /\ SubSeq(g.t.nstate, 1, n) = nstate
        /\ SubSeq(g.t.branch_length, 1, n) = branch_length
        /\ SubSeq(g.t.parent, 1, n) = parent
        /\ SubSeq(g.t.children, 1, n) = children
        /\ [g.t EXCEPT !.name = name, !.nstate = nstate,
                       !.branch_length = branch_length, !.parent = parent,
                       !.children = children, !.raised = ""] = M
        /\ g.kind = "tree" => Subtree(g.t.children, g.root) \cap (1..n) = {}
        /\ g2.kind = g.kind
        /\ g.kind = "tree" => Shape(g2.t, g2.root) = Shape(g.t, g.root)

\* a call that pruned or contracted nodes of the copy
GetTreeLeavesModelWitness ==
    LET g == get_tree_on_copy(M) IN
    /\ g.kind = "tree"
    /\ Cardinality(Subtree(g.t.children, g.root)) < Cardinality(Subtree(children, tree))
    /\ Shape(g.t, g.root) # Shape(M, tree)

\* the active nodes: unfixed and held by the bucket of their state
ActiveNodes == {n \in Created : IsNone(branch_length[n]) /\ BucketsOf(n) # {}}

\* what C15 says of the effects of birth_from(p, s) in the current state
BirthEffects(p, s) ==
    LET b  == birth_from(M, p, s)
        c  == next_node_id + 1
        st == next_node_id + 2
        parent_time == IF parent[p] = 0 THEN 0 ELSE Val(node_times[parent[p]])
    IN  /\ b.raised = ""
        /\ b.branch_length[p] = Some(current_time - parent_time)
        /\ b.node_times[p] = Some(current_time)
        /\ b.children[p] = <<c, st>>
        /\ b.nstate[c] = s
        /\ b.nstate[st] = nstate[p]
        /\ \A k \in {c, st} :
              /\ IsNone(b.branch_length[k])
              /\ b.parent[k] = p
              /\ k \in Range(Bucket(b.active_nodes, b.nstate[k]))
        /\ p \notin Range(get_active_nodes(b, None))
        /\ count_active_nodes(b, None) = count_active_nodes(M, None) + 1

SamplingEffects ==
    \A p \in ActiveNodes :
        LET parent_time == IF parent[p] = 0 THEN 0 ELSE Val(node_times[parent[p]])
            r  == sample(M, p, TRUE)
            k  == sample(M, p, FALSE)
            c  == next_node_id + 1
            st == next_node_id + 2
        IN  /\ r.raised = ""
            /\ r.branch_length[p] = Some(current_time - parent_time)
            /\ r.node_times[p] = Some(current_time)
            /\ r.sampled_nodes = sampled_nodes \cup {name[p]}
            /\ r.next_node_id = next_node_id
            /\ \A s \in States :
                  count_active_nodes(r, Some(s))
                     = count_active_nodes(M, Some(s)) - (IF s = nstate[p] THEN 1 ELSE 0)
            /\ k.raised = ""
            /\ k.next_node_id = st
            /\ k.sampled_nodes = sampled_nodes \cup {k.name[c]}
            /\ k.name[c] \notin sampled_nodes
            /\ k.branch_length[c] = Some(0)
            /\ k.node_times[c] = Some(current_time)
            /\ k.node_times[p] = Some(current_time)
            /\ k.children[c] = <<>>
            /\ k.children[p] = <<c, st>>
            /\ k.nstate[st] = nstate[p]
            /\ IsNone(k.branch_length[st])
            /\ st \in Range(Bucket(k.active_nodes, nstate[p]))
            /\ \A s \in States :
                  count_active_nodes(k, Some(s)) = count_active_nodes(M, Some(s))

\* after time 0 a node was sampled without removal and the stem that continued
\* it was then sampled with removal
SamplingEffectsWitness ==
    /\ step_log.raised = ""
    /\ \E p \in Created :
          /\ Len(children[p]) = 2
          /\ branch_length[children[p][1]] = Some(0)
          /\ Val(node_times[p]) > 0
          /\ \A c \in Range(children[p]) : name[c] \in sampled_nodes /\ ~IsNone(branch_length[c])

\* C17: a step that applies the Transmission event and nothing else lowers the
\* susceptibles counter by one and raises the number of active infectious
\* lineages by one.
TransmissionAddsInfectious ==
    [][(/\ step_log'.stepped
        /\ step_log'.raised = ""
        /\ Len(step_log'.log) = 1
        /\ step_log'.log[1][1] = "stochastic"
        /\ run_stochastic_events[step_log'.log[1][2]].kind = "Transmission")
       => /\ metadata'[SUSCEPTIBLES_KEY] = metadata[SUSCEPTIBLES_KEY] - 1
          /\ count_active_nodes(M', Some(INFECTIOUS_STATE))
                = count_active_nodes(M, Some(INFECTIOUS_STATE)) + 1]_vars

\* C18: a timed event acts on n distinct active lineages of its state, n being
\* min(firings, max_firings) for an integer and the floor of firings times
\* max_firings for a fraction, with 0 <= n <= max_firings, the number of
\* matching active lineages; the lineages acted on are n different ones.
TimedFiringsBounded ==
    \A e \in TimedInputs :
        LET max_firings == count_active_nodes(M, e.state)
            n == firings(M, e)
        IN  /\ n = IF e.firings.float THEN (e.firings.value * max_firings) \div 100
                    ELSE Min({e.firings.value, max_firings})
            /\ 0 <= n
            /\ n <= max_firings
            /\ Samples(M, e) # {}
            /\ \A nodes \in Samples(M, e) :
                  LET r == timed_event_apply(M, e, nodes)
                      acted_on == {x \in Created : r.branch_length[x] # branch_length[x]}
                  IN  /\ r.raised = ""
                      /\ acted_on = Range(nodes)
                      /\ Cardinality(acted_on) = n
                      /\ acted_on \subseteq Range(get_active_nodes(M, e.state))

\* a timed event has acted on two lineages
TimedFiringsBoundedWitness ==
    /\ ~step_log.stepped
    /\ step_log.raised = ""
    /\ Len(step_log.log) = 2
    /\ step_log.log[1] # step_log.log[2]
    /\ \A i \in 1..2 : ~IsNone(branch_length[step_log.log[i]])

\* C19: a call of the driver with n_leaves = n that returns a tree returns a
\* tree with exactly n leaves.
ExactlyNLeaves ==
    (sim.pc = "returned" /\ ~IsNone(sim.args.n_leaves))
        => Cardinality(Leaves(sim.result.children, sim.result.root)) = Val(sim.args.n_leaves)

\* C20: every SkylineParameter object, built by the constructor or returned by
\* an arithmetic operation, is in canonical form: no two adjacent values are
\* equal and the change times are strictly increasing.
CanonicalForm ==
    param.raised = ""
        => /\ \A i \in 1..(Len(param.value) - 1) : param.value[i] # param.value[i + 1]
           /\ \A i \in 1..(Len(param.change_times) - 1) :
                 param.change_times[i] < param.change_times[i + 1]

\* the operands of the arithmetic on SkylineParameter objects, a number being
\* the SkylineParameter made of it
ArithmeticOperands ==
    {SkylineParameter(<<Q(3)>>, <<>>), SkylineParameter(<<Q(0)>>, <<>>),
     SkylineParameter(<<Q(3), Q(5)>>, <<1>>), SkylineParameter(<<Q(5), Q(3)>>, <<2>>),
     SkylineParameter(<<Q(2), Q(4), Q(1)>>, <<1, 3>>)}

ArithmeticFuncs == {"add", "radd", "sub", "rsub", "mul", "rmul", "truediv", "rtruediv"}

SampleTimes == 0..3

\* the value at time t of a number, a parameter or a vector
ValueAt(kind, obj, t) ==
    IF kind = "number" THEN obj ELSE operand_value_at_time(obj, t)

\* x op y for numbers, or elementwise for lists, a number being combined with
\* every element of a list: the results, one per element
Pointwise(lk, x, rk, y, op) ==
    CASE lk = "vector" /\ rk = "vector" ->
           [i \in 1..Len(x) |-> func_numbers(op, x[i], y[i])]
      [] lk = "vector" /\ rk # "vector" ->
           [i \in 1..Len(x) |-> func_numbers(op, x[i], y)]
      [] lk # "vector" /\ rk = "vector" ->
           [i \in 1..Len(y) |-> func_numbers(op, x, y[i])]
      [] OTHER -> <<func_numbers(op, x, y)>>

\* C21: for parameters, numbers and vectors a and b and op one of +, -, *, /,
\* wherever (value of a at s) op (value of b at s) is defined for every s >= 0,
\* a op b is a skyline whose value at every s >= 0 is that value (elementwise
\* for vectors, the operands in their order).
AlgebraSound ==
    LET l == param.left
        r == param.right
        expected(t) == Pointwise(l.kind, ValueAt(l.kind, l.obj, t),
                                 r.kind, ValueAt(r.kind, r.obj, t), param.op)
        vector == "vector" \in {l.kind, r.kind}
    IN  (/\ param.op # ""
         /\ "matrix" \notin {l.kind, r.kind}
         /\ (l.kind = "vector" /\ r.kind = "vector")
               => Len(l.obj.params) = Len(r.obj.params)
         /\ \A t \in SampleTimes : first_raised(expected(t)) = "")
        => /\ param.result.raised = ""
           /\ vector = ("params" \in DOMAIN param.result)
           /\ \A t \in SampleTimes :
                 IF vector
                 THEN operand_value_at_time(param.result, t)
                        = [i \in 1..Len(expected(t)) |-> expected(t)[i].v]
                 ELSE get_value_at_time(param.result, t) = expected(t)[1].v

\* the shapes of the operands do not fit: two vectors of different lengths, two
\* matrices of different shapes, a matrix and a vector whose length is neither
\* the number of rows nor the number of columns of the matrix
ShapeMismatch(l, r) ==
    \/ l.kind = "vector" /\ r.kind = "vector" /\ Len(l.obj.params) # Len(r.obj.params)
    \/ l.kind = "matrix" /\ r.kind = "matrix" /\ l.obj.N # r.obj.N
    \/ l.kind = "matrix" /\ r.kind = "vector"
         /\ Len(r.obj.params) \notin {l.obj.N, l.obj.N - 1}
    \/ l.kind = "vector" /\ r.kind = "matrix"
         /\ Len(l.obj.params) \notin {r.obj.N, r.obj.N - 1}

\* C26: an elementwise operation on two vectors of different lengths, on two
\* matrices of different shapes, or on a matrix and a vector that fits neither
\* its rows nor its columns raises an error and returns no result.
ShapeMismatchRaises ==
    (param.op # "" /\ ShapeMismatch(param.left, param.right))
        => param.result.raised # ""

\* C27: for a matrix A and a vector v on either side of the operator, a v as
\* long as the rows are many gives the cell (i, j) from v[i] and A[i][j], and a
\* v as long as the columns are many gives it from v[j] and A[i][j], the
\* operands in their order, wherever the operation is defined.
MatrixVectorBroadcast ==
    LET l == param.left
        r == param.right
        A == IF l.kind = "matrix" THEN l.obj ELSE r.obj
        v == IF l.kind = "matrix" THEN r.obj ELSE l.obj
        k(i, j) == IF Len(v.params) = A.N THEN i ELSE j
        expected(i, j, t) ==
            LET a == get_value_at_time(A.params[i][j], t)
                x == get_value_at_time(v.params[k(i, j)], t)
            IN  IF l.kind = "matrix" THEN func_numbers(param.op, a, x)
                ELSE func_numbers(param.op, x, a)
        cells == {<<i, j>> : i \in 1..A.N, j \in 1..(A.N - 1)}
    IN  (/\ param.op # ""
         /\ {l.kind, r.kind} = {"matrix", "vector"}
         /\ Len(v.params) \in {A.N, A.N - 1}
         /\ \A c \in cells, t \in SampleTimes : expected(c[1], c[2], t).raised = "")
        => /\ param.result.raised = ""
           /\ DOMAIN param.result = DOMAIN A
           /\ param.result.N = A.N
           /\ \A c \in cells, t \in SampleTimes :
                 get_value_at_time(param.result.params[c[1]][c[2]], t)
                    = expected(c[1], c[2], t).v

\* the change times of p are strictly increasing
Increasing(p) ==
    \A i \in 1..(Len(p.change_times) - 1) : p.change_times[i] < p.change_times[i + 1]

\* C23: get_value_at_time(s) returns for every s >= 0 the value v_i, i being
\* the number of change times <= s, and raises an error for every s < 0.
ValueAtTimeContract ==
    (param.raised = "" /\ Increasing(param))
        => \A s \in -1..3 :
             LET r == get_value_at_time_call(param, s)
                 i == Cardinality({k \in 1..Len(param.change_times) :
                                     param.change_times[k] <= s})
             IN  IF s < 0 THEN r.raised # ""
                 ELSE r.raised = "" /\ r.ret = param.value[i + 1]

\* C24: the constructor raises an error, and creates no object, when the number
\* of values is not the number of change times plus one, when the change times
\* are not strictly increasing, or when a change time is not positive: an
\* object the constructor has returned has none of these.
ConstructorRejects ==
    (calls = 0 /\ param.raised = "")
        => /\ Len(param.value) = Len(param.change_times) + 1
           /\ Increasing(param)
           /\ \A i \in 1..Len(param.change_times) : param.change_times[i] > 0

\* C25: two SkylineParameter objects compare equal exactly when they have equal
\* values at every s >= 0, however they were constructed, and a skyline never
\* compares equal to a plain number.
EqualAsFunctions ==
    (param.raised = "" /\ Increasing(param))
        => /\ \A o \in ArithmeticOperands :
                 eq(param, "parameter", o)
                    <=> \A s \in SampleTimes :
                          get_value_at_time(param, s) = get_value_at_time(o, s)
           /\ \A n \in {Q(3), Q(5)} : ~eq(param, "number", n)

\* C28: after any sequence of add_child, remove_child and update_parent calls,
\* those that raise included, c is among the children of p exactly when the
\* parent of c is p, and at most once; add_child of a node that has a parent and
\* remove_child of a node that is not a child raise and change nothing.
LinkageSound ==
    /\ [](\A p \in Created, c \in Created :
            /\ (c \in Range(children[p])) <=> (parent[c] = p)
            /\ Cardinality({i \in 1..Len(children[p]) : children[p][i] = c}) <= 1)
    /\ [][(step_log'.log # <<>> /\ step_log'.log[1] = "add_child"
              /\ parent[step_log'.log[3]] # 0)
            => (step_log'.raised = "ValueError" /\ UNCHANGED model_state)]_vars
    /\ [][(step_log'.log # <<>> /\ step_log'.log[1] = "remove_child"
              /\ step_log'.log[3] \notin Range(children[step_log'.log[2]]))
            => (step_log'.raised = "ValueError" /\ UNCHANGED model_state)]_vars

\* add_child has raised on a node that another node holds as its child, after
\* an update_parent moved that node
LinkageSoundWitness ==
    /\ step_log.log # <<>>
    /\ step_log.log[1] = "add_child"
    /\ step_log.raised = "ValueError"
    /\ \E p \in Created : 
          /\ p # step_log.log[2]
          /\ parent[step_log.log[3]] = p
          /\ Len(children[p]) = 2

\* C30: every node created during a run is named by its id and its state at
\* creation, the id being 1 for the seed and one more for each node created;
\* the names of a run are pairwise distinct, a node keeps its name, and the ids
\* start again at 1 after reset().
NodeNaming ==
    /\ [](/\ Len(name) = next_node_id
          /\ tree = 1
          /\ \A n \in Created : name[n].id = n /\ name[n].state = nstate[n]
          /\ \A n1 \in Created, n2 \in Created : n1 # n2 => name[n1] # name[n2]
          /\ reset(M).next_node_id = 1
          /\ reset(M).name = << [id |-> 1, state |-> init_state] >>)
    /\ [][next_node_id' >= next_node_id
            => \A n \in Created : name'[n] = name[n] /\ nstate'[n] = nstate[n]]_vars

\* a run has created three nodes, one of them in another state than the seed
NodeNamingWitness ==
    /\ next_node_id = 3
    /\ name[3].id = 3
    /\ \E n \in Created : name[n].state # name[1].state

\* two metadata values are equal: the same type and the same value, a number
\* by its value
ValueEqual(a, b) ==
    /\ a.kind = b.kind
    /\ a.str = b.str
    /\ a.number.tenths = b.number.tenths
    /\ a.bool = b.bool

\* two trees are equal as unordered trees: the same name, branch length and
\* metadata items at the root, and equal children one for one in some order
RECURSIVE TreeEqual(_, _)
TreeEqual(a, b) ==
    /\ a.name = b.name
    /\ (a.branch_length = None) = (b.branch_length = None)
    /\ a.branch_length # None => a.branch_length[1].tenths = b.branch_length[1].tenths
    /\ Len(a.metadata) = Len(b.metadata)
    /\ \A i \in 1..Len(a.metadata) : \E j \in 1..Len(b.metadata) :
          /\ a.metadata[i][1] = b.metadata[j][1]
          /\ ValueEqual(a.metadata[i][2], b.metadata[j][2])
    /\ Len(a.children) = Len(b.children)
    /\ \E f \in Permutations(1..Len(a.children)) :
          \A k \in 1..Len(a.children) : TreeEqual(a.children[k], b.children[f[k]])

\* C29: for every tree that the serializer accepts, parsing the line that it
\* writes returns a tree, and that tree is equal to the one written: the same
\* topology, names, branch lengths, and metadata keys and values.
NewickRoundTrip ==
    io.pc = "loaded" => io.raised = "" /\ TreeEqual(io.parsed, io.tree)

\* the node reached from n by k parent links, 0 when the links end before
RECURSIVE Ancestor(_, _)
Ancestor(n, k) ==
    IF k = 0 \/ n = 0 THEN n ELSE Ancestor(parent[n], k - 1)

\* C40: after any sequence of add_child, remove_child and update_parent calls
\* on any nodes, a node with itself or with one of its descendants included,
\* no node is its own ancestor.
ParentAcyclic ==
    \A n \in Created : \A k \in 1..next_node_id : Ancestor(n, k) # n

\* the state of a generator after n draws
RECURSIVE NthDraw(_, _)
NthDraw(state, n) == IF n = 0 THEN state ELSE NthDraw(drawn(state), n - 1)

\* C31: the seed handed to the i-th job of a parallel call is the i-th draw
\* of the generator seeded with the master seed, whatever n_jobs is, whatever
\* the order in which the jobs run and whatever is drawn inside the jobs.
SeedsFromMaster ==
    \A i \in 1..Len(pool.jobs) : pool.jobs[i].handed = NthDraw(seeded(pool.seed), i)

\* C32: with a timeout given, every call of simulate_tree ends: it returns a
\* tree or raises, whatever n_leaves and the acceptance criterion are, as long
\* as the wall clock advances.
DriverTerminates == <>(sim.pc \in {"returned", "raised"})

\* C33: a stochastic event is never applied at a time strictly inside a
\* segment of its skyline on which its rate is 0, whatever is drawn.
ZeroRateNeverApplied ==
    step_log.stepped =>
        \A k \in 1..Len(step_log.log) :
            (/\ step_log.log[k][1] = "stochastic"
             /\ step_log.log[k][2] <= Len(run_stochastic_events))
                => LET rate == run_stochastic_events[step_log.log[k][2]].rate
                       time == step_log.log[k][3]
                   IN  ~(/\ time > 0
                         /\ time \notin Range(rate.change_times)
                         /\ get_value_at_time(rate, time) = 0)

\* C34: whatever the list of fire times of a timed event and whatever
\* current_time, the next firing time computed for the event is the least of
\* its fire times greater than current_time, None if there is none, and the
\* event acts only at a time that is one of its fire times.
NextFiringTimeLeast ==
    [][(step_log'.stepped /\ "firing_times" \in DOMAIN step_log') =>
         \A k \in 1..Len(run_timed_events) :
            LET times == run_timed_events[k].times
                later == {x \in Range(times) : x > current_time}
            IN  /\ step_log'.firing_times.timed[k] =
                       IF later = {} THEN None ELSE Some(Min(later))
                /\ <<"timed", k>> \in Range(step_log'.acted)
                       => current_time' \in Range(times)]_vars

\* C35: a step draws its waiting time from the propensities at the rates in
\* force at the current time; when the drawn time is beyond the earliest
\* later change time of a rate, the step ends no later than that change time
\* and applies no stochastic event.
DrawValidUntilChange ==
    [][step_log'.stepped =>
         LET n == Len(run_stochastic_events)
             changes == {t \in UNION {Range(run_stochastic_events[i].rate.change_times) :
                                        i \in 1..n} : t > current_time}
             rate_now(i) ==
                 LET p == run_stochastic_events[i].rate
                 IN  p.value[Cardinality({j \in 1..Len(p.change_times) :
                                            p.change_times[j] <= current_time}) + 1]
             reactants(i) ==
                 get_propensity([run_stochastic_events[i] EXCEPT !.rate = Const(1)], M)
             waiting == step_log'.stochastic_event_time
         IN  /\ IsNone(waiting) <=> \A i \in 1..n : rate_now(i) * reactants(i) = 0
             /\ (~IsNone(waiting) /\ changes # {} /\ Val(waiting) > Min(changes))
                   => /\ current_time' <= Min(changes)
                      /\ \A k \in 1..Len(step_log'.log) :
                            step_log'.log[k][1] # "stochastic"]_vars

\* a step whose drawn time was beyond a rate change ended at the change time
DrawValidUntilChangeWitness ==
    /\ step_log.stepped
    /\ step_log.raised = ""
    /\ ~IsNone(step_log.stochastic_event_time)
    /\ Val(step_log.stochastic_event_time) > current_time
    /\ \E i \in 1..Len(run_stochastic_events) :
          current_time \in Range(run_stochastic_events[i].rate.change_times)
    /\ \A k \in 1..Len(step_log.log) : step_log.log[k][1] # "stochastic"

\* C36: with max_time set and not yet passed, max_time is among the candidate
\* times of every step of a run in which nothing was raised: the step ends at
\* a time no later than max_time, applies no event after max_time, and
\* returns False exactly when it ends at max_time.
MaxTimeAmongCandidates ==
    [][(/\ step_log.raised = ""
        /\ step_log'.stepped
        /\ step_log'.raised = ""
        /\ "max_time" \in DOMAIN step_log'
        /\ ~IsNone(step_log'.max_time)
        /\ current_time <= Val(step_log'.max_time))
          => /\ current_time' <= Val(step_log'.max_time)
             /\ \A k \in 1..Len(step_log'.log) :
                   step_log'.log[k][3] <= Val(step_log'.max_time)
             /\ ~step_log'.ret <=> current_time' = Val(step_log'.max_time)]_vars

NoInternalFault == step_log.stepped => step_log.raised = ""

\* the number of Transmission events in the list a step applied
Transmissions(log) ==
    Cardinality({k \in 1..Len(log) :
                   /\ log[k][1] = "stochastic"
                   /\ log[k][2] <= Len(run_stochastic_events)
                   /\ run_stochastic_events[log[k][2]].kind = "Transmission"})

\* C39: in a run of the SIR model started with S0 susceptibles the counter
\* stays within 0..S0, every Transmission applied lowers it by one and nothing
\* else changes it, and Transmission is not applied when the counter is 0.
SusceptiblesCounter ==
    /\ [](metadata[SUSCEPTIBLES_KEY] \in 0..Val(init_metadata)[SUSCEPTIBLES_KEY])
    /\ [][step_log'.stepped =>
            /\ metadata'[SUSCEPTIBLES_KEY] =
                   metadata[SUSCEPTIBLES_KEY] - Transmissions(step_log'.log)
            /\ Transmissions(step_log'.log) > 0 => metadata[SUSCEPTIBLES_KEY] > 0]_vars

\* C4: current_time is 0 after reset() and no step() call, whatever its
\* max_time, makes it decrease or negative.
MonotoneTime ==
    /\ [](current_time >= 0)
    /\ [][IF step_log'.stepped
          THEN current_time' >= current_time
          ELSE current_time' = 0]_vars

(* ------------------------------ simulate_tree ------------------------- *)
\* the change times of the rates and the fire times of the timed events of a call
AllChangeTimes(args) ==
    UNION {Range(args.events[i].rate.change_times) : i \in 1..Len(args.events)}

AllTimedTimes(args) ==
    UNION {Range(args.timed_events[i].times) : i \in 1..Len(args.timed_events)}

\* the pending part of a schedule: its next time and the times after it
Pending(next_time, later) ==
    (IF IsNone(next_time) THEN {} ELSE {Val(next_time)}) \cup Range(later)

\* the attempt that just ended in s is one the driver must discard
AttemptFails(s) ==
    LET g == upm_get_tree(s.u) IN
    \/ ~IsNone(s.args.n_leaves) /\ Cardinality(s.u.sampled_nodes) < Val(s.args.n_leaves)
    \/ g.kind # "tree"
    \/ /\ ~IsNone(s.args.acceptance_criterion)
       /\ Cardinality(Leaves(g.t.children, g.root)) < Val(s.args.acceptance_criterion)

\* s is the start of an attempt: a model holding the seed individual alone, at
\* time 0, with every rate change and every fire time still to come
FreshAttempt(s) ==
    /\ s.current_time = 0
    /\ s.u.sampled_nodes = {}
    /\ s.u.next_node_id = 1 /\ s.u.next_individual_id = 1
    /\ s.u.name = <<get_node_name(1, s.u.init_state)>>
    /\ s.u.branch_length = <<None>> /\ s.u.children = << <<>> >>
    /\ s.u.parent = <<0>> /\ s.u.times = <<None>>
    /\ s.u.states = <<Some(s.u.init_state)>>
    /\ \A st \in States : s.u.population[st] = IF st = s.u.init_state THEN {1} ELSE {}
    /\ Pending(s.next_change_time, s.change_times) = AllChangeTimes(s.args)
    /\ Pending(s.next_timed_event_time, s.timed_event_times) = AllTimedTimes(s.args)

\* C5: a tree simulate_tree returns is the non-empty pruned tree of its last
\* attempt, which reached n_leaves sampled names when n_leaves is set and
\* satisfies acceptance_criterion when one is given; an attempt failing any of
\* these is discarded, and every attempt starts from a freshly initialised
\* model at time 0 with the complete schedules.
RejectAndRetry ==
    /\ [](sim.pc = "returned" =>
            /\ ~AttemptFails(sim)
            /\ sim.result.root = upm_get_tree(sim.u).root
            /\ sim.result.children = upm_get_tree(sim.u).t.children
            /\ sim.result.branch_length = upm_get_tree(sim.u).t.branch_length)
    /\ [][/\ (sim.pc = "after" /\ sim'.pc # "after" /\ AttemptFails(sim))
                => sim'.pc = "attempt"
          /\ (sim.pc = "attempt" /\ sim'.pc = "loop") => FreshAttempt(sim')]_vars

\* a tree is returned by the second attempt of a call with an acceptance
\* criterion, the first attempt having sampled a name
RejectAndRetryWitness ==
    /\ sim.pc = "returned"
    /\ sim.attempts = 2
    /\ sim.run = 1
    /\ ~IsNone(sim.args.acceptance_criterion)

\* C6: once the wall-clock time since the start of the call exceeds timeout,
\* the next timeout check raises TimeoutError; nothing follows the raise, and
\* no attempt restarts the clock.
TimeoutRaises ==
    [][/\ (/\ sim.pc = "loop"
           /\ sim'.clock = sim.clock
           /\ sim_loop_condition(sim)
           /\ ~IsNone(sim.args.timeout)
           /\ sim.clock - sim.call_clock > Val(sim.args.timeout))
             => (sim'.pc = "raised" /\ sim'.exc = "TimeoutError")
       /\ sim.pc = "raised" => sim' = sim
       /\ sim.pc \in {"attempt", "loop", "after"}
             => (sim'.start_clock = sim.call_clock /\ sim'.call_clock = sim.call_clock)]_vars

\* the call timed out in its second attempt
TimeoutRaisesWitness ==
    /\ sim.pc = "raised"
    /\ sim.exc = "TimeoutError"
    /\ sim.attempts = 2
    /\ sim.clock - sim.call_clock > Val(sim.args.timeout)

\* C7, as the specification states it: the call is rejected only when neither
\* n_leaves nor max_time is given.
RejectsOnlyNeither ==
    (sim.pc = "raised" /\ sim.exc = "ValueError: exactly one")
        => (IsNone(sim.args.n_leaves) /\ IsNone(sim.args.max_time))

\* C7, amended: the call is rejected with ValueError if and only if n_leaves
\* and max_time are both given or both missing; it runs when exactly one of
\* them is given.
ExactlyOneLimit ==
    sim.pc # "idle" =>
        ((sim.pc = "raised" /\ sim.exc = "ValueError: exactly one")
            <=> (IsNone(sim.args.n_leaves) = IsNone(sim.args.max_time)))

\* a call with both n_leaves and max_time was rejected
ExactlyOneLimitWitness ==
    /\ sim.pc = "raised"
    /\ sim.exc = "ValueError: exactly one"
    /\ ~IsNone(sim.args.n_leaves)
    /\ ~IsNone(sim.args.max_time)

\* the number of occurrences of x in the list s
Count(s, x) == Cardinality({i \in 1..Len(s) : s[i] = x})

\* C8: every timed event whose fire time the run has handled was applied
\* exactly once for that fire time, at that time, whatever else fired at the
\* same time.  A fire time is handled once the clock is past it, or stands at
\* it when the attempt ends; an application in a later iteration at the same
\* time counts.
CoincidentEventsAppliedOnce ==
    sim.pc \in {"loop", "after", "returned"} =>
        \A i \in 1..Len(sim.args.timed_events) :
            \A t \in Range(sim.args.timed_events[i].times) :
                (/\ IsNone(sim.args.max_time) \/ t <= Val(sim.args.max_time)
                 /\ \/ t < sim.current_time
                    \/ sim.pc # "loop" /\ t = sim.current_time)
                    => Count(sim.fired, <<"timed", i, t>>) = 1

\* the stochastic events whose firing time in the iteration just made was the
\* next change time of their own rate and the minimum candidate, and which had
\* reactants to act on
FiredAtOwnRateChange ==
    {k \in 1..Len(run_stochastic_events) :
        LET e == run_stochastic_events[k] IN
        /\ step_log'.stepped
        /\ step_log'.raised = ""
        /\ step_log'.firing_times.stochastic[k] = Some(current_time')
        /\ step_log'.firing_times.stochastic[k]
              = get_next_greater(e.rate.change_times, current_time)
        /\ get_value_at_time(e.rate, current_time) * reactant_combinations(M, e) > 0}

SameSeedSameTree ==
    (sim.run = 2 /\ sim.pc \in {"returned", "raised"}) =>
        (sim.pc = "returned" /\ sim.result = sim.result1)

\* the second call returned a tree with two leaves from its second attempt
SameSeedSameTreeWitness ==
    /\ sim.run = 2
    /\ sim.pc = "returned"
    /\ sim.attempts = 2
    /\ Cardinality(Leaves(sim.result.children, sim.result.root)) >= 2

====
